---------------------------- MODULE Spec2Model ----------------------------
(***************************************************************************)
(* A model of the SPL compiler (spl.py): the lexer, the declaration        *)
(* passes, function tagging, string hoisting, library resolution, the      *)
(* code generator and the assembly emitter.                                *)
(*                                                                         *)
(* Representation.  In the compiler pipeline a token is a TLA+ string; the *)
(* characters of a token, where the code looks at them (regular            *)
(* expressions, token[0], token[:2]), are given by Spelling.  In the lexer *)
(* the source text is a sequence of one-character strings and a token is   *)
(* the sequence of characters accumulated so far.  A Python dict whose     *)
(* iteration order matters is a sequence of <<key, value>> pairs in        *)
(* insertion order; a dict that is only looked up is a function.  The     *)
(* assembly records [label, mnemonic, operand] are triples of strings,     *)
(* formatted as the code formats them.                                     *)
(***************************************************************************)
EXTENDS Integers, Sequences, FiniteSets, TLC

VARIABLES
    pc,               \* position in Compile(): the stage that runs next
    err,              \* "" or the exception that ended the compilation
    source,           \* self.source, a sequence of characters
    srcPos,           \* number of characters Tokenize has consumed
    lex,              \* the locals of Tokenize: t, delim and the mode flags
    tokens,           \* self.tokens
    cmdOrigin,        \* self.cmdOrigin (-1 when -org is not given)
    sys,              \* self.sys (-sys)
    org,              \* self.org
    symtbl,           \* self.symtbl
    names,            \* self.names
    vars,             \* self.vars
    consts,           \* self.consts
    str,              \* self.str
    dataBlocks,       \* self.dataBlocks
    codeBlocks,       \* self.codeBlocks
    funcs,            \* self.funcs
    referenced,       \* self.referenced
    stringCount,      \* self.stringCount
    counter,          \* self.counter
    lib,              \* self.lib
    dependencies,     \* self.dependencies
    functionAddress,  \* self.functionAddress
    dasm,             \* self.dasm
    casm,             \* self.casm
    fasm,             \* self.fasm
    out,              \* the output file <outname>.s
    table,            \* DEPENDENCIES, the table Dependencies reads
    calls             \* the calls of Dependencies that have not returned:
                      \* the list each one goes through and its position

vars_ == <<pc, err, source, srcPos, lex, tokens, cmdOrigin, sys, org, symtbl,
           names, vars, consts, str, dataBlocks, codeBlocks, funcs,
           referenced, stringCount, counter, lib, dependencies,
           functionAddress, dasm, casm, fasm, out, table, calls>>

---------------------------------------------------------------------------
(* Configuration section of spl.py *)

ORG == 16384

VARTOP == 65423

VARINT == 32768

EQUATES ==
    << <<"stack",  VARINT>>,
       <<"op1",    VARINT + 0>>,
       <<"op2",    VARINT + 4>>,
       <<"res",    VARINT + 8>>,
       <<"rem",    VARINT + 16>>,
       <<"tmp",    VARINT + 20>>,
       <<"sign",   VARINT + 24>>,
       <<"dreg",   VARINT + 26>>,
       <<"wreg",   VARINT + 28>>,
       <<"xreg",   VARINT + 30>>,
       <<"yreg",   VARINT + 32>>,
       <<"ureg",   VARINT + 34>>,
       <<"outbuf", VARINT + 36>>,
       <<"inbuf",  VARINT + 52>> >>

(* Library words dependency table *)

DEPENDENCIES ==
    ("0trim" :> <<>>)
 @@ ("abs" :> <<"get_ab", "comp_tb">>)
 @@ ("accept" :> <<>>)
 @@ ("add1" :> <<>>)
 @@ ("addstore" :> <<"get_ab">>)
 @@ ("ampdot" :> <<"get_ta", "get_op1">>)
 @@ ("and" :> <<"get_ab", "push">>)
 @@ ("booland" :> <<"get_ab", "push">>)
 @@ ("areg" :> <<>>)
 @@ ("fetch" :> <<"get_ta", "push">>)
 @@ ("dfetch" :> <<"get_ta", "push">>)
 @@ ("cfetch" :> <<"get_ta", "push">>)
 @@ ("b_and" :> <<"get_tb", "pop", "push">>)
 @@ ("bclr" :> <<"get_ab", "push">>)
 @@ ("b_or" :> <<"get_tb", "push">>)
 @@ ("bset" :> <<"get_ab", "push">>)
 @@ ("btest" :> <<"get_ab", "push">>)
 @@ ("btoa" :> <<"ptrout">>)
 @@ ("btod" :> <<>>)
 @@ ("b_xor" :> <<"get_tb", "pop", "push">>)
 @@ ("bye" :> <<>>)
 @@ ("call" :> <<>>)
 @@ ("chout" :> <<>>)
 @@ ("ch" :> <<"pop">>)
 @@ ("cls" :> <<>>)
 @@ ("cmove" :> <<"get_ta", "get_tb">>)
 @@ ("cmoveb" :> <<"get_ta", "get_op1">>)
 @@ ("comp" :> <<"pop", "push">>)
 @@ ("comp_ta" :> <<>>)
 @@ ("comp_tb" :> <<>>)
 @@ ("copy" :> <<>>)
 @@ ("count" :> <<"get_tb", "push", "plus1">>)
 @@ ("cprhex" :> <<>>)
 @@ ("cr" :> <<>>)
 @@ ("crson" :> <<>>)
 @@ ("crsoff" :> <<>>)
 @@ ("ctoggle" :> <<"pop", "get_ta">>)
 @@ ("csub" :> <<>>)
 @@ ("cv" :> <<"pop">>)
 @@ ("d32" :> <<>>)
 @@ ("dabs" :> <<"get_op1", "push_op1">>)
 @@ ("d_add" :> <<>>)
 @@ ("dadd" :> <<"get_ops", "push_res">>)
 @@ ("date" :> <<"push">>)
 @@ ("ddivide" :> <<"ddiv", "push">>)
 @@ ("ddivmod" :> <<"ddiv", "push">>)
 @@ ("ddiv" :> <<"get_ops", "d32", "neg">>)
 @@ ("depth" :> <<>>)
 @@ ("d_eq" :> <<"zerores">>)
 @@ ("deq" :> <<"get_ops", "d_eq", "push">>)
 @@ ("d_ge" :> <<"d_eq", "d_gt">>)
 @@ ("dge" :> <<"get_ops", "d_ge", "push">>)
 @@ ("d_gt" :> <<"d_sub", "iszero", "zerores">>)
 @@ ("dgt" :> <<"get_ops", "d_gt", "push">>)
 @@ ("disp" :> <<"get_ta", "chout", "udiv16", "push">>)
 @@ ("div" :> <<"get_ta", "comp_ta", "comp_tb", "udiv16", "push">>)
 @@ ("d_le" :> <<"d_eq", "d_lt">>)
 @@ ("dle" :> <<"get_ops", "d_le", "push">>)
 @@ ("d_lt" :> <<"d_sub", "zerores">>)
 @@ ("dlt" :> <<"get_ops", "d_lt", "push">>)
 @@ ("dmod" :> <<"ddiv", "push">>)
 @@ ("dmult" :> <<"get_ops", "neg", "m32", "push_res">>)
 @@ ("dnegate" :> <<"get_op1", "neg", "op1res", "push_res">>)
 @@ ("d_ne" :> <<"d_eq">>)
 @@ ("dne" :> <<"get_ops", "d_ne", "push">>)
 @@ ("decaddr" :> <<"get_ta">>)
 @@ ("deccaddr" :> <<"pop">>)
 @@ ("dnumber" :> <<"pop", "neg", "push">>)
 @@ ("dprhex" :> <<"get_op1", "cprhex">>)
 @@ ("dprint" :> <<"get_op2", "chout", "neg", "btod", "pntres">>)
 @@ ("drop2" :> <<"pop">>)
 @@ ("drop" :> <<"pop">>)
 @@ ("d_sqrt" :> <<"d_sub">>)
 @@ ("dsqrt" :> <<"get_op1", "d_sqrt", "push_res">>)
 @@ ("d_sub" :> <<>>)
 @@ ("dsub" :> <<"get_ops", "d_sub", "push_res">>)
 @@ ("dtos" :> <<"pop">>)
 @@ ("dup2" :> <<"push">>)
 @@ ("duprint" :> <<"get_op2", "btod", "pntres">>)
 @@ ("dup" :> <<"push">>)
 @@ ("emit" :> <<"pop", "chout">>)
 @@ ("eq" :> <<"get_ab", "push">>)
 @@ ("exit" :> <<>>)
 @@ ("execute" :> <<"pop">>)
 @@ ("erase" :> <<"pop", "get_ab">>)
 @@ ("fill" :> <<"pop", "get_ab">>)
 @@ ("fclose" :> <<"pop", "push">>)
 @@ ("fcreate" :> <<"pop", "push">>)
 @@ ("fdestroy" :> <<"pop", "push">>)
 @@ ("feof" :> <<"pop", "push">>)
 @@ ("fetchend" :> <<"push">>)
 @@ ("fetchinda" :> <<"push">>)
 @@ ("fetchindadec" :> <<"push">>)
 @@ ("fetchindainc" :> <<"push">>)
 @@ ("fetchindb" :> <<"push">>)
 @@ ("fetchindbdec" :> <<"push">>)
 @@ ("fetchindbinc" :> <<"push">>)
 @@ ("fflush" :> <<"pop", "push">>)
 @@ ("fgetc" :> <<"pop", "push">>)
 @@ ("fread" :> <<"pop", "push">>)
 @@ ("fopen" :> <<"pop", "push", "pdos_addr">>)
 @@ ("fputc" :> <<"pop", "push">>)
 @@ ("fseek" :> <<"pop", "push">>)
 @@ ("ftell" :> <<"pop", "push">>)
 @@ ("fwrite" :> <<"pop", "push">>)
 @@ ("ge" :> <<"get_ab", "csub", "push">>)
 @@ ("get_ab" :> <<"get_tb", "get_ta">>)
 @@ ("get_op1" :> <<"pop">>)
 @@ ("get_op2" :> <<"pop">>)
 @@ ("get_ops" :> <<"get_op2", "get_op1">>)
 @@ ("get_ta" :> <<"pop">>)
 @@ ("get_tb" :> <<"pop">>)
 @@ ("get_file_info" :> <<"pop", "push">>)
 @@ ("getcwd" :> <<"pop", "push">>)
 @@ ("gt" :> <<"get_ab", "csub", "push">>)
 @@ ("incaddr" :> <<"get_ta">>)
 @@ ("inccaddr" :> <<"pop">>)
 @@ ("input_s" :> <<"push">>)
 @@ ("inverse" :> <<>>)
 @@ ("iszero" :> <<>>)
 @@ ("keyp" :> <<"rdykey", "push">>)
 @@ ("key" :> <<"rdkey", "push">>)
 @@ ("le" :> <<"get_ab", "csub", "push">>)
 @@ ("lt" :> <<"get_ab", "csub", "push">>)
 @@ ("m32" :> <<"zerores">>)
 @@ ("minus1" :> <<"pop", "push">>)
 @@ ("minus2" :> <<"pop", "push">>)
 @@ ("mod" :> <<"get_ab", "comp_ta", "comp_tb", "udiv16", "push">>)
 @@ ("mult" :> <<"get_ab", "comp_ta", "comp_tb", "umult16", "push">>)
 @@ ("negate" :> <<"get_ta", "comp_ta", "push">>)
 @@ ("neg" :> <<"add1">>)
 @@ ("ne" :> <<"get_ab", "push">>)
 @@ ("nip" :> <<"get_ta", "pop", "push">>)
 @@ ("normal" :> <<>>)
 @@ ("not" :> <<"get_ta", "push">>)
 @@ ("n_str" :> <<"ptrout", "comp_ta", "u_str">>)
 @@ ("number" :> <<"comp_ta", "push">>)
 @@ ("op1res" :> <<>>)
 @@ ("or" :> <<"get_ab", "push">>)
 @@ ("over" :> <<>>)
 @@ ("pad" :> <<>>)
 @@ ("pdos_addr" :> <<>>)
 @@ ("plus1" :> <<>>)
 @@ ("plus2" :> <<>>)
 @@ ("pntres" :> <<"chout">>)
 @@ ("pop" :> <<>>)
 @@ ("pos" :> <<"pop">>)
 @@ ("prbuf" :> <<"chout">>)
 @@ ("prhex2" :> <<"pop", "cprhex">>)
 @@ ("prhex" :> <<"pop", "cprhex">>)
 @@ ("primm" :> <<"chout">>)
 @@ ("print" :> <<"n_str", "prbuf">>)
 @@ ("ptrout" :> <<>>)
 @@ ("push_op1" :> <<"push">>)
 @@ ("push_op2" :> <<"push">>)
 @@ ("push_rem" :> <<"push">>)
 @@ ("push_res" :> <<"push">>)
 @@ ("push" :> <<>>)
 @@ ("quit" :> <<>>)
 @@ ("read_block" :> <<"pop", "push">>)
 @@ ("rename" :> <<"pop", "push">>)
 @@ ("rdkey" :> <<>>)
 @@ ("rdykey" :> <<>>)
 @@ ("reset" :> <<>>)
 @@ ("rot" :> <<"get_ta", "get_tb", "pop", "push">>)
 @@ ("setcwd" :> <<"pop", "push">>)
 @@ ("space" :> <<"chout">>)
 @@ ("set_file_info" :> <<"pop", "push">>)
 @@ ("spfetch" :> <<"push">>)
 @@ ("stod" :> <<"push">>)
 @@ ("strcmp" :> <<"get_ab", "push">>)
 @@ ("strcpy" :> <<"get_ab">>)
 @@ ("strlen" :> <<"get_ta", "push">>)
 @@ ("strmatch" :> <<"get_ab", "push">>)
 @@ ("strpos" :> <<"get_ab", "push">>)
 @@ ("sub1" :> <<>>)
 @@ ("sub" :> <<"get_ab", "csub", "push">>)
 @@ ("swapcell" :> <<>>)
 @@ ("swap2" :> <<"get_ta", "get_tb", "pop", "push">>)
 @@ ("swap" :> <<"get_ta", "get_tb", "push">>)
 @@ ("time" :> <<"push">>)
 @@ ("to_r" :> <<"pop">>)
 @@ ("type" :> <<"get_ta", "get_tb", "chout", "udiv16", "push">>)
 @@ ("from_r" :> <<"push">>)
 @@ ("r_fetch" :> <<"to_r", "from_r", "dup">>)
 @@ ("tooutbuf" :> <<"u_str">>)
 @@ ("store16" :> <<"get_ta", "pop">>)
 @@ ("store32" :> <<"get_ta", "pop">>)
 @@ ("store8" :> <<"get_ta", "pop">>)
 @@ ("udiv16" :> <<>>)
 @@ ("udiv" :> <<"get_ab", "udiv16", "push">>)
 @@ ("ugt" :> <<"get_ab", "push">>)
 @@ ("ult" :> <<"get_ab", "push">>)
 @@ ("umod" :> <<"get_ab", "udiv16", "push">>)
 @@ ("umult16" :> <<>>)
 @@ ("umult" :> <<"get_ab", "umult16", "push">>)
 @@ ("uncount" :> <<"pop", "push">>)
 @@ ("uprint" :> <<"u_str", "prbuf">>)
 @@ ("ushiftl" :> <<"pop", "push">>)
 @@ ("ushiftr" :> <<"pop", "push">>)
 @@ ("u_str" :> <<"get_ta", "btoa">>)
 @@ ("within" :> <<"over", "to_r", "from_r", "ult">>)
 @@ ("write_block" :> <<"pop", "push">>)
 @@ ("xor" :> <<"get_ab", "push">>)
 @@ ("xreg" :> <<"pop">>)
 @@ ("yreg" :> <<"pop">>)
 @@ ("zerores" :> <<>>)

(* Mapping between library words and assembly labels *)

LIBRARYMAP ==
    (">a" :> "toareg")
 @@ ("a>" :> "fromareg")
 @@ ("a!" :> "storeinda")
 @@ ("a@" :> "fetchinda")
 @@ ("a@+" :> "fetchindainc")
 @@ ("a@-" :> "fetchindadec")
 @@ ("a!+" :> "storeindainc")
 @@ (">b" :> "tobreg")
 @@ ("b>" :> "frombreg")
 @@ ("b!" :> "storeindb")
 @@ ("b@" :> "fetchindb")
 @@ ("b@+" :> "fetchindbinc")
 @@ ("b@-" :> "fetchindbdec")
 @@ ("b!+" :> "storeindbinc")
 @@ ("0trim" :> "0trim")
 @@ ("abs" :> "abs")
 @@ ("accept" :> "accept")
 @@ ("&." :> "ampdot")
 @@ ("areg" :> "areg")
 @@ (">outbuf" :> "tooutbuf")
 @@ ("bclr" :> "bclr")
 @@ ("bset" :> "bset")
 @@ ("btest" :> "btest")
 @@ ("bye" :> "bye")
 @@ ("call" :> "call")
 @@ ("cmove" :> "cmove")
 @@ ("cmove>" :> "cmoveb")
 @@ ("count" :> "count")
 @@ ("cr" :> "cr")
 @@ ("dabs" :> "dabs")
 @@ ("date" :> "date")
 @@ ("d+" :> "dadd")
 @@ ("d/" :> "ddivide")
 @@ ("d/mod" :> "ddivmod")
 @@ ("depth" :> "depth")
 @@ ("d=" :> "deq")
 @@ ("d>=" :> "dge")
 @@ ("d>" :> "dgt")
 @@ ("disp" :> "disp")
 @@ ("d<=" :> "dle")
 @@ ("d<" :> "dlt")
 @@ ("dmod" :> "dmod")
 @@ ("d*" :> "dmult")
 @@ ("dnegate" :> "dnegate")
 @@ ("d<>" :> "dne")
 @@ ("dnumber" :> "dnumber")
 @@ ("d.$" :> "dprhex")
 @@ ("d." :> "dprint")
 @@ ("dsqrt" :> "dsqrt")
 @@ ("d-" :> "dsub")
 @@ ("du." :> "duprint")
 @@ ("emit" :> "emit")
 @@ ("end@" :> "fetchend")
 @@ ("exit" :> "exit")
 @@ ("erase" :> "erase")
 @@ ("=" :> "eq")
 @@ ("execute" :> "execute")
 @@ ("fclose" :> "fclose")
 @@ ("fdestroy" :> "fdestroy")
 @@ ("feof" :> "feof")
 @@ ("fflush" :> "fflush")
 @@ ("finfo@" :> "get_file_info")
 @@ ("finfo!" :> "set_file_info")
 @@ ("fgetc" :> "fgetc")
 @@ ("fill" :> "fill")
 @@ ("fopen" :> "fopen")
 @@ ("fputc" :> "fputc")
 @@ ("fread" :> "fread")
 @@ ("fseek" :> "fseek")
 @@ ("fwrite" :> "fwrite")
 @@ ("fcreate" :> "fcreate")
 @@ ("ftell" :> "ftell")
 @@ ("getcwd" :> "getcwd")
 @@ (">=" :> "ge")
 @@ (">" :> "gt")
 @@ ("input" :> "input_s")
 @@ ("keyp" :> "keyp")
 @@ ("key" :> "key")
 @@ ("/" :> "div")
 @@ ("<=" :> "le")
 @@ ("<" :> "lt")
 @@ ("<>" :> "ne")
 @@ ("not" :> "not")
 @@ ("number" :> "number")
 @@ ("pad" :> "pad")
 @@ (".2$" :> "prhex2")
 @@ (".$" :> "prhex")
 @@ ("." :> "print")
 @@ ("quit" :> "quit")
 @@ ("read_block" :> "read_block")
 @@ ("rename" :> "rename")
 @@ ("reset" :> "reset")
 @@ (">r" :> "to_r")
 @@ ("r>" :> "from_r")
 @@ ("r@" :> "r_fetch")
 @@ ("setcwd" :> "setcwd")
 @@ ("space" :> "space")
 @@ ("sp@" :> "spfetch")
 @@ ("strcmp" :> "strcmp")
 @@ ("strcpy" :> "strcpy")
 @@ ("strlen" :> "strlen")
 @@ ("strmatch" :> "strmatch")
 @@ ("strpos" :> "strpos")
 @@ ("time" :> "time")
 @@ ("type" :> "type")
 @@ ("uncount" :> "uncount")
 @@ ("u/" :> "udiv")
 @@ ("u>" :> "ugt")
 @@ ("u<" :> "ult")
 @@ ("umod" :> "umod")
 @@ ("u*" :> "umult")
 @@ ("u." :> "uprint")
 @@ ("<<" :> "ushiftl")
 @@ (">>" :> "ushiftr")
 @@ ("><" :> "swapcell")
 @@ ("within" :> "within")
 @@ ("write_block" :> "write_block")
 @@ ("xreg" :> "xreg")
 @@ ("yreg" :> "yreg")

---------------------------------------------------------------------------
(* Ordered dictionaries: sequences of <<key, value>> pairs. *)

Keys(d) == { d[i][1] : i \in DOMAIN d }

Put(d, k, v) ==
    IF k \in Keys(d)
    THEN [ i \in DOMAIN d |-> IF d[i][1] = k THEN <<k, v>> ELSE d[i] ]
    ELSE Append(d, <<k, v>>)

---------------------------------------------------------------------------
(* Characters and the regular expressions of the literal parser. *)

Digits == {"0", "1", "2", "3", "4", "5", "6", "7", "8", "9"}

NonZeroDigits == Digits \ {"0"}

OctDigits == {"0", "1", "2", "3", "4", "5", "6", "7"}

BinDigits == {"0", "1"}

HexDigits == Digits \cup {"a", "b", "c", "d", "e", "f"}

Letters ==
    {"a", "b", "c", "d", "e", "f", "g", "h", "i", "j", "k", "l", "m",
     "n", "o", "p", "q", "r", "s", "t", "u", "v", "w", "x", "y", "z"}

UpperToLower ==
       ("A" :> "a") @@ ("B" :> "b") @@ ("C" :> "c") @@ ("D" :> "d")
    @@ ("E" :> "e") @@ ("F" :> "f") @@ ("G" :> "g") @@ ("H" :> "h")
    @@ ("I" :> "i") @@ ("J" :> "j") @@ ("K" :> "k") @@ ("L" :> "l")
    @@ ("M" :> "m") @@ ("N" :> "n") @@ ("O" :> "o") @@ ("P" :> "p")
    @@ ("Q" :> "q") @@ ("R" :> "r") @@ ("S" :> "s") @@ ("T" :> "t")
    @@ ("U" :> "u") @@ ("V" :> "v") @@ ("W" :> "w") @@ ("X" :> "x")
    @@ ("Y" :> "y") @@ ("Z" :> "z")

DigitVal ==
       ("0" :> 0) @@ ("1" :> 1) @@ ("2" :> 2) @@ ("3" :> 3) @@ ("4" :> 4)
    @@ ("5" :> 5) @@ ("6" :> 6) @@ ("7" :> 7) @@ ("8" :> 8) @@ ("9" :> 9)
    @@ ("a" :> 10) @@ ("b" :> 11) @@ ("c" :> 12) @@ ("d" :> 13)
    @@ ("e" :> 14) @@ ("f" :> 15)

\* s.lower()
Lower(s) ==
    [ i \in DOMAIN s |->
        IF s[i] \in DOMAIN UpperToLower THEN UpperToLower[s[i]] ELSE s[i] ]

\* t.replace('_','')
StripUnderscores(s) == SelectSeq(s, LAMBDA ch : ch # "_")

AllIn(s, S) == \A i \in DOMAIN s : s[i] \in S

From(s, p) == SubSeq(s, p, Len(s))

\* int(digits, base)
RECURSIVE IntOf(_, _)
IntOf(digits, base) ==
    IF digits = <<>> THEN 0
    ELSE IntOf(SubSeq(digits, 1, Len(digits) - 1), base) * base
         + DigitVal[digits[Len(digits)]]

\* what is left of s after the optional group (-|~)? of the Check* patterns
AfterUnary(s) ==
    IF Len(s) >= 1 /\ s[1] \in {"-", "~"} THEN Tail(s) ELSE s

\* what is left of s after the optional group (b'|d'|w')?
AfterStorage(s) ==
    IF Len(s) >= 2 /\ s[1] \in {"b", "d", "w"} /\ s[2] = "'"
    THEN From(s, 3) ELSE s

\* the least element of a non-empty set of positions
MinOf(S) == CHOOSE p \in S : \A r \in S : p <= r

\* where re.search("(b'|d'|w')", t) can match
StorageSpecifiers(t) ==
    { p \in 1..(Len(t) - 1) : t[p] \in {"b", "d", "w"} /\ t[p + 1] = "'" }

LiteralStorage(s) ==
    IF StorageSpecifiers(Lower(s)) = {} THEN 0
    ELSE CASE Lower(s)[MinOf(StorageSpecifiers(Lower(s)))] = "d" -> 4
           [] Lower(s)[MinOf(StorageSpecifiers(Lower(s)))] = "b" -> 1
           [] OTHER -> 2

LiteralUnary(s) ==
    IF Len(s) >= 1 /\ s[1] = "-" THEN -2
    ELSE IF Len(s) >= 1 /\ s[1] = "~" THEN -1
    ELSE IF Len(s) >= 1 /\ s[1] = "+" THEN 1
    ELSE 0

LitIntBound(sign, mag, size) ==
    IF size = 1 THEN (mag <= 2^7) \/ (sign >= 0 /\ mag < 2^8)
    ELSE IF size = 2 THEN (mag <= 2^15) \/ (sign >= 0 /\ mag < 2^16)
    ELSE IF size = 4
    THEN \* mag <= 2**31 or (sign >= 0 and mag < 2**32), written with numbers
         \* that fit the 32-bit integers of TLC
         ((mag - 1) \div 2 < 2^30) \/ (sign >= 0 /\ mag \div 4 < 2^30)
    ELSE TRUE

CheckDecimal(s) ==
    \E u \in {AfterStorage(AfterUnary(Lower(s)))} :
        /\ Len(u) >= 1
        /\ u[1] \in NonZeroDigits \cup {"_"}
        /\ AllIn(u, Digits \cup {"_"})

CheckOctal(s) ==
    \E u \in {AfterStorage(AfterUnary(Lower(s)))} :
        /\ Len(u) >= 1
        /\ u[1] = "0"
        /\ AllIn(Tail(u), OctDigits \cup {"_"})

CheckHexadecimal(s) ==
    \E u \in {AfterStorage(AfterUnary(Lower(s)))} :
        /\ Len(u) >= 3
        /\ u[1] = "0"
        /\ u[2] = "x"
        /\ AllIn(From(u, 3), HexDigits \cup {"_"})

CheckBinary(s) ==
    \E u \in {AfterStorage(AfterUnary(Lower(s)))} :
        /\ Len(u) >= 3
        /\ u[1] = "0"
        /\ u[2] = "b"
        /\ AllIn(From(u, 3), BinDigits \cup {"_"})

isNumber(s) ==
    /\ s # <<>>
    /\ (CheckDecimal(s) \/ CheckHexadecimal(s) \/ CheckBinary(s) \/ CheckOctal(s))

\* A decoded literal (the namedtuple LiteralInt) with its bound as the
\* parsers compute it
LiteralInt(sign, mag, size, base, text) ==
    [ok |-> TRUE, sign |-> sign, mag |-> mag, size |-> size, base |-> base,
     bound |-> IF size > 0 THEN LitIntBound(sign, mag, size) ELSE TRUE,
     text |-> text]

\* LiteralInteger returns () for what is not a number
NotALiteral == [ok |-> FALSE, raised |-> FALSE]

\* a parser whose search finds nothing raises "Illegal ... number"
IllegalLiteral == [ok |-> FALSE, raised |-> TRUE]

\* where the magnitude pattern of a parser matches up to the end of t
Magnitudes(t, base) ==
    CASE base = 10 ->
           { p \in DOMAIN t : t[p] \in NonZeroDigits /\ AllIn(From(t, p), Digits) }
      [] base = 2 ->
           { p \in 1..(Len(t) - 2) : /\ t[p] = "0" /\ t[p + 1] = "b"
                                     /\ Len(t) >= p + 2
                                     /\ AllIn(From(t, p + 2), BinDigits) }
      [] base = 8 ->
           { p \in DOMAIN t : t[p] = "0" /\ AllIn(From(t, p + 1), OctDigits) }
      [] base = 16 ->
           { p \in 1..(Len(t) - 2) : /\ t[p] = "0" /\ t[p + 1] = "x"
                                     /\ Len(t) >= p + 2
                                     /\ AllIn(From(t, p + 2), HexDigits) }

\* the body shared by Decimal, Hexadecimal, Binary and Octal: s is the
\* literal, t is s in lower case without underscores, skip the length of
\* the base prefix
Decode(s, t, skip, base) ==
    IF Magnitudes(t, base) = {} THEN IllegalLiteral
    ELSE LiteralInt(LiteralUnary(Lower(s)), 
                    IntOf(From(t, MinOf(Magnitudes(t, base)) + skip), base),
                    LiteralStorage(Lower(s)), base, s)

Decimal(s) == Decode(s, StripUnderscores(Lower(s)), 0, 10)

Binary(s) == Decode(s, StripUnderscores(Lower(s)), 2, 2)

Octal(s) == Decode(s, StripUnderscores(Lower(s)), 0, 8)

Hexadecimal(s) == Decode(s, StripUnderscores(Lower(s)), 2, 16)

LiteralInteger(s) ==
    IF isNumber(s)
    THEN IF CheckDecimal(s) THEN Decimal(s)
         ELSE IF CheckHexadecimal(s) THEN Hexadecimal(s)
         ELSE IF CheckBinary(s) THEN Binary(s)
         ELSE Octal(s)
    ELSE NotALiteral

\* Number(s): int("") raises ValueError
NumberRaises(s) == StripUnderscores(Lower(s)) = <<>>

\* the simple decimal or 0x number; t is s in lower case without
\* underscores
SimpleNumber(t) ==
    IF AllIn(t, Digits) THEN IntOf(t, 10)
    ELSE IF Len(t) >= 3 /\ t[1] = "0" /\ t[2] = "x" /\ AllIn(From(t, 3), HexDigits)
    THEN IntOf(From(t, 3), 16)
    ELSE 0

Number(s) == SimpleNumber(StripUnderscores(Lower(s)))

InvalidNameUnderscoreFirst(name) ==
    \/ name = <<>>
    \/ \E t \in {Lower(name)} :
          ~ (AllIn(<<t[1]>>, Letters \cup {"_"})
             /\ AllIn(Tail(t), Letters \cup Digits \cup {"_"}))

InvalidName(name) ==
    \/ name = <<>>
    \/ \E t \in {Lower(name)} :
          ~ (t[1] \in Letters /\ AllIn(Tail(t), Letters \cup Digits \cup {"_"}))

isStringConstant(token) ==
    /\ token # <<>>
    /\ token[1] = token[Len(token)]
    /\ token[1] \in {"\"", "'"}

isInlineCode(token) ==
    /\ Len(token) >= 2
    /\ SubSeq(token, 1, 2) = <<"/", "#">>
    /\ SubSeq(token, Len(token) - 1, Len(token)) = <<"#", "/">>

---------------------------------------------------------------------------
(* The characters of the tokens used in the programs below *)

Spelling ==
    (":" :> <<":">>)
 @@ (";" :> <<";">>)
 @@ ("def" :> <<"d", "e", "f">>)
 @@ ("end" :> <<"e", "n", "d">>)
 @@ ("org" :> <<"o", "r", "g">>)
 @@ ("var" :> <<"v", "a", "r">>)
 @@ ("const" :> <<"c", "o", "n", "s", "t">>)
 @@ ("str" :> <<"s", "t", "r">>)
 @@ ("data" :> <<"d", "a", "t", "a">>)
 @@ ("code" :> <<"c", "o", "d", "e">>)
 @@ ("main" :> <<"m", "a", "i", "n">>)
 @@ ("f" :> <<"f">>)
 @@ ("g" :> <<"g">>)
 @@ ("a" :> <<"a">>)
 @@ ("b" :> <<"b">>)
 @@ ("c" :> <<"c">>)
 @@ ("k" :> <<"k">>)
 @@ ("s" :> <<"s">>)
 @@ ("d" :> <<"d">>)
 @@ ("A1" :> <<"A", "1">>)
 @@ ("a_1" :> <<"a", "_", "1">>)
 @@ ("_a" :> <<"_", "a">>)
 @@ ("1a" :> <<"1", "a">>)
 @@ ("a-b" :> <<"a", "-", "b">>)
 @@ ("1" :> <<"1">>)
 @@ ("2" :> <<"2">>)
 @@ ("4" :> <<"4">>)
 @@ ("40000" :> <<"4", "0", "0", "0", "0">>)
 @@ ("65534" :> <<"6", "5", "5", "3", "4">>)
 @@ ("0x2000" :> <<"0", "x", "2", "0", "0", "0">>)
 @@ ("0x3000" :> <<"0", "x", "3", "0", "0", "0">>)
 @@ ("b'" :> <<"b", "'">>)
 @@ ("b'1" :> <<"b", "'", "1">>)
 @@ ("\"hi\"" :> <<"\"", "h", "i", "\"">>)
 @@ ("/# nop #/" :> <<"/", "#", " ", "n", "o", "p", " ", "#", "/">>)
 @@ (" nop " :> <<" ", "n", "o", "p", " ">>)
 @@ ("nop" :> <<"n", "o", "p">>)
 @@ ("STR_0000" :> <<"S", "T", "R", "_", "0", "0", "0", "0">>)
 @@ ("STR_0001" :> <<"S", "T", "R", "_", "0", "0", "0", "1">>)
 @@ ("STR_0002" :> <<"S", "T", "R", "_", "0", "0", "0", "2">>)
 @@ ("STR_0003" :> <<"S", "T", "R", "_", "0", "0", "0", "3">>)
 @@ ("STR_0004" :> <<"S", "T", "R", "_", "0", "0", "0", "4">>)
 @@ ("STR_0005" :> <<"S", "T", "R", "_", "0", "0", "0", "5">>)
 @@ ("&" :> <<"&">>)
 @@ ("." :> <<".">>)
 @@ ("/" :> <<"/">>)
 @@ ("u>" :> <<"u", ">">>)
 @@ ("++" :> <<"+", "+">>)
 @@ ("swap" :> <<"s", "w", "a", "p">>)
 @@ ("dup" :> <<"d", "u", "p">>)
 @@ ("emit" :> <<"e", "m", "i", "t">>)
 @@ ("-" :> <<"-">>)
 @@ ("mod" :> <<"m", "o", "d">>)
 @@ ("7" :> <<"7">>)
 @@ ("b'0xFF" :> <<"b", "'", "0", "x", "F", "F">>)
 @@ ("b'0x100" :> <<"b", "'", "0", "x", "1", "0", "0">>)
 @@ ("b'255" :> <<"b", "'", "2", "5", "5">>)
 @@ ("b'256" :> <<"b", "'", "2", "5", "6">>)
 @@ ("b'0377" :> <<"b", "'", "0", "3", "7", "7">>)
 @@ ("b'0400" :> <<"b", "'", "0", "4", "0", "0">>)
 @@ ("b'0b11111111" :> <<"b", "'", "0", "b", "1", "1", "1", "1", "1", "1", "1", "1">>)
 @@ ("-b'128" :> <<"-", "b", "'", "1", "2", "8">>)
 @@ ("-b'129" :> <<"-", "b", "'", "1", "2", "9">>)
 @@ ("~b'128" :> <<"~", "b", "'", "1", "2", "8">>)
 @@ ("~b'129" :> <<"~", "b", "'", "1", "2", "9">>)
 @@ ("-b'1" :> <<"-", "b", "'", "1">>)
 @@ ("~b'1" :> <<"~", "b", "'", "1">>)
 @@ ("-b'0x80" :> <<"-", "b", "'", "0", "x", "8", "0">>)
 @@ ("~b'0x7F" :> <<"~", "b", "'", "0", "x", "7", "F">>)
 @@ ("+b'1" :> <<"+", "b", "'", "1">>)
 @@ ("+b'256" :> <<"+", "b", "'", "2", "5", "6">>)
 @@ ("w'0xFFFF" :> <<"w", "'", "0", "x", "F", "F", "F", "F">>)
 @@ ("w'0x10000" :> <<"w", "'", "0", "x", "1", "0", "0", "0", "0">>)
 @@ ("-w'32768" :> <<"-", "w", "'", "3", "2", "7", "6", "8">>)
 @@ ("-w'32769" :> <<"-", "w", "'", "3", "2", "7", "6", "9">>)
 @@ ("~w'32769" :> <<"~", "w", "'", "3", "2", "7", "6", "9">>)
 @@ ("+w'0x10" :> <<"+", "w", "'", "0", "x", "1", "0">>)
 @@ ("d'1" :> <<"d", "'", "1">>)
 @@ ("-d'1" :> <<"-", "d", "'", "1">>)
 @@ ("d'0x10000" :> <<"d", "'", "0", "x", "1", "0", "0", "0", "0">>)
 @@ ("65535" :> <<"6", "5", "5", "3", "5">>)
 @@ ("65536" :> <<"6", "5", "5", "3", "6">>)
 @@ ("70000" :> <<"7", "0", "0", "0", "0">>)
 @@ ("0xFFFF" :> <<"0", "x", "F", "F", "F", "F">>)
 @@ ("0x10000" :> <<"0", "x", "1", "0", "0", "0", "0">>)
 @@ ("0177777" :> <<"0", "1", "7", "7", "7", "7", "7">>)
 @@ ("0200000" :> <<"0", "2", "0", "0", "0", "0", "0">>)
 @@ ("0b1" :> <<"0", "b", "1">>)
 @@ ("0b10000000000000000" :> <<"0", "b", "1", "0", "0", "0", "0", "0", "0", "0", "0", "0", "0", "0", "0", "0", "0", "0", "0">>)
 @@ ("-1" :> <<"-", "1">>)
 @@ ("~1" :> <<"~", "1">>)
 @@ ("{" :> <<"{">>)
 @@ ("}" :> <<"}">>)
 @@ ("if" :> <<"i", "f">>)
 @@ ("0if" :> <<"0", "i", "f">>)
 @@ ("else" :> <<"e", "l", "s", "e">>)
 @@ ("then" :> <<"t", "h", "e", "n">>)
 @@ ("break" :> <<"b", "r", "e", "a", "k">>)
 @@ ("cont" :> <<"c", "o", "n", "t">>)
 @@ ("?break" :> <<"?", "b", "r", "e", "a", "k">>)
 @@ ("?cont" :> <<"?", "c", "o", "n", "t">>)
 @@ ("?0break" :> <<"?", "0", "b", "r", "e", "a", "k">>)
 @@ ("?0cont" :> <<"?", "0", "c", "o", "n", "t">>)
 @@ ("return" :> <<"r", "e", "t", "u", "r", "n">>)
 @@ (">a" :> <<">", "a">>)
 @@ ("a>" :> <<"a", ">">>)
 @@ ("a!" :> <<"a", "!">>)
 @@ ("a@" :> <<"a", "@">>)
 @@ ("a@+" :> <<"a", "@", "+">>)
 @@ ("a@-" :> <<"a", "@", "-">>)
 @@ ("a!+" :> <<"a", "!", "+">>)
 @@ (">b" :> <<">", "b">>)
 @@ ("b>" :> <<"b", ">">>)
 @@ ("b!" :> <<"b", "!">>)
 @@ ("b@" :> <<"b", "@">>)
 @@ ("b@+" :> <<"b", "@", "+">>)
 @@ ("b@-" :> <<"b", "@", "-">>)
 @@ ("b!+" :> <<"b", "!", "+">>)
 @@ ("0trim" :> <<"0", "t", "r", "i", "m">>)
 @@ ("abs" :> <<"a", "b", "s">>)
 @@ ("accept" :> <<"a", "c", "c", "e", "p", "t">>)
 @@ ("&." :> <<"&", ".">>)
 @@ ("areg" :> <<"a", "r", "e", "g">>)
 @@ (">outbuf" :> <<">", "o", "u", "t", "b", "u", "f">>)
 @@ ("bclr" :> <<"b", "c", "l", "r">>)
 @@ ("bset" :> <<"b", "s", "e", "t">>)
 @@ ("btest" :> <<"b", "t", "e", "s", "t">>)
 @@ ("bye" :> <<"b", "y", "e">>)
 @@ ("call" :> <<"c", "a", "l", "l">>)
 @@ ("cmove" :> <<"c", "m", "o", "v", "e">>)
 @@ ("cmove>" :> <<"c", "m", "o", "v", "e", ">">>)
 @@ ("count" :> <<"c", "o", "u", "n", "t">>)
 @@ ("cr" :> <<"c", "r">>)
 @@ ("dabs" :> <<"d", "a", "b", "s">>)
 @@ ("date" :> <<"d", "a", "t", "e">>)
 @@ ("d+" :> <<"d", "+">>)
 @@ ("d/" :> <<"d", "/">>)
 @@ ("d/mod" :> <<"d", "/", "m", "o", "d">>)
 @@ ("depth" :> <<"d", "e", "p", "t", "h">>)
 @@ ("d=" :> <<"d", "=">>)
 @@ ("d>=" :> <<"d", ">", "=">>)
 @@ ("d>" :> <<"d", ">">>)
 @@ ("disp" :> <<"d", "i", "s", "p">>)
 @@ ("d<=" :> <<"d", "<", "=">>)
 @@ ("d<" :> <<"d", "<">>)
 @@ ("dmod" :> <<"d", "m", "o", "d">>)
 @@ ("d*" :> <<"d", "*">>)
 @@ ("dnegate" :> <<"d", "n", "e", "g", "a", "t", "e">>)
 @@ ("d<>" :> <<"d", "<", ">">>)
 @@ ("dnumber" :> <<"d", "n", "u", "m", "b", "e", "r">>)
 @@ ("d.$" :> <<"d", ".", "$">>)
 @@ ("d." :> <<"d", ".">>)
 @@ ("dsqrt" :> <<"d", "s", "q", "r", "t">>)
 @@ ("d-" :> <<"d", "-">>)
 @@ ("du." :> <<"d", "u", ".">>)
 @@ ("end@" :> <<"e", "n", "d", "@">>)
 @@ ("exit" :> <<"e", "x", "i", "t">>)
 @@ ("erase" :> <<"e", "r", "a", "s", "e">>)
 @@ ("=" :> <<"=">>)
 @@ ("execute" :> <<"e", "x", "e", "c", "u", "t", "e">>)
 @@ ("fclose" :> <<"f", "c", "l", "o", "s", "e">>)
 @@ ("fdestroy" :> <<"f", "d", "e", "s", "t", "r", "o", "y">>)
 @@ ("feof" :> <<"f", "e", "o", "f">>)
 @@ ("fflush" :> <<"f", "f", "l", "u", "s", "h">>)
 @@ ("finfo@" :> <<"f", "i", "n", "f", "o", "@">>)
 @@ ("finfo!" :> <<"f", "i", "n", "f", "o", "!">>)
 @@ ("fgetc" :> <<"f", "g", "e", "t", "c">>)
 @@ ("fill" :> <<"f", "i", "l", "l">>)
 @@ ("fopen" :> <<"f", "o", "p", "e", "n">>)
 @@ ("fputc" :> <<"f", "p", "u", "t", "c">>)
 @@ ("fread" :> <<"f", "r", "e", "a", "d">>)
 @@ ("fseek" :> <<"f", "s", "e", "e", "k">>)
 @@ ("fwrite" :> <<"f", "w", "r", "i", "t", "e">>)
 @@ ("fcreate" :> <<"f", "c", "r", "e", "a", "t", "e">>)
 @@ ("ftell" :> <<"f", "t", "e", "l", "l">>)
 @@ ("getcwd" :> <<"g", "e", "t", "c", "w", "d">>)
 @@ (">=" :> <<">", "=">>)
 @@ (">" :> <<">">>)
 @@ ("input" :> <<"i", "n", "p", "u", "t">>)
 @@ ("keyp" :> <<"k", "e", "y", "p">>)
 @@ ("key" :> <<"k", "e", "y">>)
 @@ ("<=" :> <<"<", "=">>)
 @@ ("<" :> <<"<">>)
 @@ ("<>" :> <<"<", ">">>)
 @@ ("not" :> <<"n", "o", "t">>)
 @@ ("number" :> <<"n", "u", "m", "b", "e", "r">>)
 @@ ("pad" :> <<"p", "a", "d">>)
 @@ (".2$" :> <<".", "2", "$">>)
 @@ (".$" :> <<".", "$">>)
 @@ ("quit" :> <<"q", "u", "i", "t">>)
 @@ ("read_block" :> <<"r", "e", "a", "d", "_", "b", "l", "o", "c", "k">>)
 @@ ("rename" :> <<"r", "e", "n", "a", "m", "e">>)
 @@ ("reset" :> <<"r", "e", "s", "e", "t">>)
 @@ (">r" :> <<">", "r">>)
 @@ ("r>" :> <<"r", ">">>)
 @@ ("r@" :> <<"r", "@">>)
 @@ ("setcwd" :> <<"s", "e", "t", "c", "w", "d">>)
 @@ ("space" :> <<"s", "p", "a", "c", "e">>)
 @@ ("sp@" :> <<"s", "p", "@">>)
 @@ ("strcmp" :> <<"s", "t", "r", "c", "m", "p">>)
 @@ ("strcpy" :> <<"s", "t", "r", "c", "p", "y">>)
 @@ ("strlen" :> <<"s", "t", "r", "l", "e", "n">>)
 @@ ("strmatch" :> <<"s", "t", "r", "m", "a", "t", "c", "h">>)
 @@ ("strpos" :> <<"s", "t", "r", "p", "o", "s">>)
 @@ ("time" :> <<"t", "i", "m", "e">>)
 @@ ("type" :> <<"t", "y", "p", "e">>)
 @@ ("uncount" :> <<"u", "n", "c", "o", "u", "n", "t">>)
 @@ ("u/" :> <<"u", "/">>)
 @@ ("u<" :> <<"u", "<">>)
 @@ ("umod" :> <<"u", "m", "o", "d">>)
 @@ ("u*" :> <<"u", "*">>)
 @@ ("u." :> <<"u", ".">>)
 @@ ("<<" :> <<"<", "<">>)
 @@ (">>" :> <<">", ">">>)
 @@ ("><" :> <<">", "<">>)
 @@ ("within" :> <<"w", "i", "t", "h", "i", "n">>)
 @@ ("write_block" :> <<"w", "r", "i", "t", "e", "_", "b", "l", "o", "c", "k">>)
 @@ ("xreg" :> <<"x", "r", "e", "g">>)
 @@ ("yreg" :> <<"y", "r", "e", "g">>)

---------------------------------------------------------------------------
(* Token text *)

\* the characters of a token
Chars(token) == Spelling[token]

\* the text made of the characters cs
Text(cs) == CHOOSE t \in DOMAIN Spelling : Spelling[t] = cs

\* "%05d" % n and "%04X" % n
DigitChar ==
    <<"0", "1", "2", "3", "4", "5", "6", "7", "8", "9",
      "A", "B", "C", "D", "E", "F">>

RECURSIVE Format(_, _, _)
Format(n, base, width) ==
    IF n < base /\ width <= 1 THEN DigitChar[n + 1]
    ELSE Format(n \div base, base, width - 1) \o DigitChar[(n % base) + 1]

---------------------------------------------------------------------------
(* The symbol table as Keywords() and Corewords() leave it *)

KeywordNames ==
    {"{", "}", "if", "0if", "else", "then", "break", "cont", "?break",
     "?cont", "?0break", "?0cont", "&", "return"}

Keywords == [ k \in KeywordNames |-> "KWD" ]

\* the names Corewords() enters into the symbol table
CoreSymbols ==
    {"drop", "2drop", "dup", "2dup", "nip", "over", "rot", "swap", "2swap",
     "b.and", "b.or", "b.xor", "~",
     "+", "-", "1+", "2+", "1-", "2-", "*", "/", "mod", "negate",
     "!", "c!", "d!", "@", "c@", "d@", "+!", "+1", "c++", "--", "c--",
     ">x", "x>", ">y", "y>", ">d", "d>"}

Corewords == [ k \in CoreSymbols |-> "CORE" ]

\* the keys of the compile dictionary self.corewords, by helper
CoreStackWords ==
    {"drop", "2drop", "dup", "2dup", "nip", "over", "rot", "swap", "2swap"}

CoreBitwiseWords == {"b.and", "b.or", "b.xor", "~"}

CoreArithmeticWords ==
    {"+", "-", "1+", "2+", "1-", "2-", "*", "/", "mod", "negate"}

CoreAccessWords ==
    {"!", "c!", "d!", "@", "c@", "d@", "+!", "++", "c++", "--", "c--"}

CoreCallWords == {">x", "x>", ">y", "y>", ">d", "d>", ">u", "u>"}

CoreCode(records) == [err |-> "", code |-> records]

CoreError(msg) == [err |-> msg, code |-> <<>>]


---------------------------------------------------------------------------
(* SetOrigin *)

\* self.Error(msg): the pass stops with the diagnostic
Fail(st, msg) == [st EXCEPT !.err = msg]

RECURSIVE SetOriginFrom(_, _, _)
SetOriginFrom(toks, st, k) ==
    IF k > Len(toks) THEN st
    ELSE LET i == toks[k] IN
         IF i = "org"
         THEN IF st.indef
              THEN Fail(st, "Origin statements cannot be within functions.")
              ELSE SetOriginFrom(toks, [st EXCEPT !.next = TRUE], k + 1)
         ELSE IF i \in {"def", ":"}
         THEN SetOriginFrom(toks, [st EXCEPT !.indef = TRUE], k + 1)
         ELSE IF i \in {"end", ";"}
         THEN SetOriginFrom(toks, [st EXCEPT !.indef = FALSE], k + 1)
         ELSE IF st.next
         THEN IF NumberRaises(Chars(i)) THEN Fail(st, "ValueError")
              ELSE LET n == Number(Chars(i)) IN
                   IF n < 0 \/ n > 65535
                   THEN Fail([st EXCEPT !.org = n], "Illegal origin address")
                   ELSE [st EXCEPT !.org = n]
         ELSE SetOriginFrom(toks, st, k + 1)

SetOrigin(toks, cmd) ==
    SetOriginFrom(toks,
                  [org |-> IF cmd # -1 THEN cmd ELSE ORG, next |-> FALSE,
                   indef |-> FALSE, err |-> ""],
                  1)

---------------------------------------------------------------------------
(* AddName and Declarations *)

\* AddName raises when the name is already in self.names
DuplicateIgnored(nm, name) == FALSE

Duplicate(nm, name) == name \in DOMAIN nm

AddName(nm, name) == (name :> name) @@ nm

\* the size of a variable: a simple number, else a storage specifier
VarBytes(size) ==
    IF isNumber(Chars(size)) THEN Number(Chars(size))
    ELSE LiteralStorage(Chars(size))

\* the body of the branch "var": name is tokens[i+1], size tokens[i+2] and
\* bytes the size it denotes
DeclareVariable(st, name, size, bytes) ==
    IF isNumber(Chars(size)) /\ NumberRaises(Chars(size))
    THEN Fail(st, "ValueError")
    ELSE IF InvalidName(Chars(name))
    THEN Fail(st, "Illegal variable name")
    ELSE IF bytes <= 0 \/ bytes >= 65535
    THEN Fail(st, "Illegal variable size")
    ELSE IF Duplicate(st.names, name)
    THEN Fail([st EXCEPT !.vars = Put(@, name, bytes),
                         !.symtbl = (name :> "VAR") @@ @],
              "Duplicate name found")
    ELSE [st EXCEPT !.vars = Put(@, name, bytes),
                    !.symtbl = (name :> "VAR") @@ @,
                    !.names = AddName(@, name)]

\* the body of the branch "const": value is tokens[i+2] and n is
\* LiteralInteger(value), whose text is value
DeclareConstant(st, name, value, n) ==
    IF ~ n.ok /\ n.raised
    THEN Fail(st, "Illegal number")
    ELSE IF InvalidName(Chars(name))
    THEN Fail(st, "Illegal constant name")
    ELSE IF ~ n.ok
    THEN st
    ELSE IF ~ n.bound
    THEN Fail(st, "Illegal constant value")
    ELSE IF Duplicate(st.names, name)
    THEN Fail([st EXCEPT !.consts = (name :> value) @@ @,
                         !.symtbl = (name :> "CONST") @@ @],
              "Duplicate name found")
    ELSE [st EXCEPT !.consts = (name :> value) @@ @,
                    !.symtbl = (name :> "CONST") @@ @,
                    !.names = AddName(@, name)]

\* the body of the branch "str"
DeclareString(st, name, val) ==
    IF InvalidName(Chars(name))
    THEN Fail(st, "Illegal string name")
    ELSE IF Duplicate(st.names, name)
    THEN Fail([st EXCEPT !.str = Put(@, name, val),
                         !.symtbl = (name :> "STR") @@ @],
              "Duplicate name found")
    ELSE [st EXCEPT !.str = Put(@, name, val),
                    !.symtbl = (name :> "STR") @@ @,
                    !.names = AddName(@, name)]

\* the while loop of Declarations from token k on
RECURSIVE DeclarationsFrom(_, _, _)
DeclarationsFrom(toks, st, k) ==
    IF st.err # "" \/ k > Len(toks) THEN st
    ELSE IF toks[k] \in {"var", "const", "str"} THEN
        IF st.indef
        THEN Fail(st, CASE toks[k] = "var" ->
                             "Variables cannot be defined within functions."
                        [] toks[k] = "const" ->
                             "Constants cannot be defined within functions."
                        [] OTHER ->
                             "Strings cannot be defined within functions.")
        ELSE IF k + 2 > Len(toks)
        THEN Fail(st, CASE toks[k] = "var" ->
                  "Syntax error: too few tokens for variable declaration."
                        [] toks[k] = "const" ->
                  "Syntax error: too few tokens for constant declaration."
                        [] OTHER ->
                  "Syntax error: too few tokens for string declaration.")
        ELSE DeclarationsFrom(toks,
               CASE toks[k] = "var" ->
                      DeclareVariable(st, toks[k + 1], toks[k + 2],
                                      VarBytes(toks[k + 2]))
                 [] toks[k] = "const" ->
                      DeclareConstant(st, toks[k + 1], toks[k + 2],
                                      LiteralInteger(Chars(toks[k + 2])))
                 [] OTHER ->
                      DeclareString(st, toks[k + 1], toks[k + 2]),
               k + 3)
    ELSE IF toks[k] \in {"def", ":"}
    THEN DeclarationsFrom(toks, [st EXCEPT !.indef = TRUE], k + 1)
    ELSE IF toks[k] \in {"end", ";"}
    THEN DeclarationsFrom(toks, [st EXCEPT !.indef = FALSE], k + 1)
    ELSE DeclarationsFrom(toks, st, k + 1)

Declarations(toks, st) ==
    DeclarationsFrom(toks, [st EXCEPT !.indef = FALSE], 1)

---------------------------------------------------------------------------
(* ParseDataBlocks *)

\* the branch "elif (indata)": n is LiteralInteger(tok), whose text is tok
DataValue(st, tok, n) ==
    IF ~ n.ok /\ n.raised THEN Fail(st, "Illegal number")
    ELSE IF ~ n.ok THEN st
    ELSE IF ~ n.bound THEN Fail(st, "Illegal data value")
    ELSE [st EXCEPT !.data = Append(@, tok)]

\* the while loop of ParseDataBlocks from token k on
RECURSIVE ParseDataBlocksFrom(_, _, _)
ParseDataBlocksFrom(toks, st, k) ==
    IF st.err # "" \/ k > Len(toks) THEN st
    ELSE IF toks[k] = "data" THEN
        IF st.indata THEN Fail(st, "Data blocks may not be nested.")
        ELSE IF k + 1 > Len(toks)
        THEN Fail(st, "Too few tokens for data block declaration.")
        ELSE IF InvalidName(Chars(toks[k + 1]))
        THEN Fail(st, "Illegal data block name")
        ELSE ParseDataBlocksFrom(toks,
               [st EXCEPT !.indata = TRUE, !.data = <<>>,
                          !.name = toks[k + 1]], k + 2)
    ELSE IF toks[k] = "end" /\ st.indata THEN
        IF Duplicate(st.names, st.name)
        THEN Fail([st EXCEPT !.indata = FALSE,
                             !.dataBlocks = Put(@, st.name, st.data),
                             !.symtbl = (st.name :> "DATA") @@ @],
                  "Duplicate name found")
        ELSE ParseDataBlocksFrom(toks,
               [st EXCEPT !.indata = FALSE,
                          !.dataBlocks = Put(@, st.name, st.data),
                          !.symtbl = (st.name :> "DATA") @@ @,
                          !.names = AddName(@, st.name)], k + 1)
    ELSE IF st.indata
    THEN ParseDataBlocksFrom(toks,
           DataValue(st, toks[k], LiteralInteger(Chars(toks[k]))), k + 1)
    ELSE ParseDataBlocksFrom(toks, st, k + 1)

ParseDataBlocks(toks, st) ==
    ParseDataBlocksFrom(toks,
        [symtbl |-> st.symtbl, names |-> st.names, dataBlocks |-> <<>>,
         indata |-> FALSE, name |-> "", data |-> <<>>, err |-> ""], 1)

---------------------------------------------------------------------------
(* ParseCodeBlocks *)

\* the body of the branch "code": delimited is the text of tokens[i+2]
DeclareCodeBlock(st, name, delimited) ==
    IF InvalidName(Chars(name))
    THEN Fail(st, "Illegal code block name")
    ELSE IF ~ isInlineCode(delimited)
    THEN Fail(st, "Code block missing delimiters.")
    ELSE IF Duplicate(st.names, name)
    THEN Fail([st EXCEPT !.codeBlocks =
                             Put(@, name, SubSeq(delimited, 3, Len(delimited) - 2)),
                         !.symtbl = (name :> "CODE") @@ @],
              "Duplicate name found")
    ELSE [st EXCEPT !.codeBlocks =
                        Put(@, name, SubSeq(delimited, 3, Len(delimited) - 2)),
                    !.symtbl = (name :> "CODE") @@ @,
                    !.names = AddName(@, name)]

\* the while loop of ParseCodeBlocks from token k on
RECURSIVE ParseCodeBlocksFrom(_, _, _)
ParseCodeBlocksFrom(toks, st, k) ==
    IF st.err # "" \/ k > Len(toks) THEN st
    ELSE IF toks[k] = "code" THEN
        IF k + 2 > Len(toks)
        THEN Fail(st, "Too few tokens for code block declaration.")
        ELSE ParseCodeBlocksFrom(toks,
               DeclareCodeBlock(st, toks[k + 1], Chars(toks[k + 2])), k + 3)
    ELSE ParseCodeBlocksFrom(toks, st, k + 1)

ParseCodeBlocks(toks, st) ==
    ParseCodeBlocksFrom(toks,
        [symtbl |-> st.symtbl, names |-> st.names, codeBlocks |-> <<>>,
         err |-> ""], 1)

---------------------------------------------------------------------------
(* ParseFunctions *)

RECURSIVE ParseFunctionsFrom(_, _, _)
ParseFunctionsFrom(toks, st, k) ==
    IF st.err # "" \/ k > Len(toks) THEN st
    ELSE
      IF toks[k] \in {"def", ":"} THEN
        IF st.indef THEN Fail(st, "Function declarations may not be nested.")
        ELSE IF k + 1 > Len(toks)
        THEN Fail(st, "Too few tokens for function declaration.")
        ELSE IF InvalidName(Chars(toks[k + 1]))
        THEN Fail(st, "Illegal function name")
        ELSE ParseFunctionsFrom(toks,
               [st EXCEPT !.indef = TRUE, !.func = <<>>,
                          !.name = toks[k + 1]], k + 2)
      ELSE IF toks[k] \in {"end", ";"} /\ st.indef THEN
        IF Duplicate(st.names, st.name)
        THEN Fail([st EXCEPT !.indef = FALSE,
                             !.funcs = Put(@, st.name, st.func),
                             !.symtbl = (st.name :> "FUNC") @@ @,
                             !.referenced = (st.name :> FALSE) @@ @],
                  "Duplicate name found")
        ELSE ParseFunctionsFrom(toks,
               [st EXCEPT !.indef = FALSE,
                          !.funcs = Put(@, st.name, st.func),
                          !.symtbl = (st.name :> "FUNC") @@ @,
                          !.referenced = (st.name :> FALSE) @@ @,
                          !.names = AddName(@, st.name)], k + 1)
      ELSE IF st.indef
      THEN ParseFunctionsFrom(toks, [st EXCEPT !.func = Append(@, toks[k])], k + 1)
      ELSE ParseFunctionsFrom(toks, st, k + 1)

ParseFunctions(toks, st) ==
    ParseFunctionsFrom(toks,
        [symtbl |-> st.symtbl, names |-> st.names, funcs |-> <<>>,
         referenced |-> st.referenced, indef |-> FALSE, name |-> "",
         func |-> <<>>, err |-> ""], 1)


---------------------------------------------------------------------------
(* TagFunctions, LocateStringConstants, LibraryRoutines *)

EmptyMap == [ x \in {} |-> x ]

Range(s) == { s[i] : i \in DOMAIN s }

\* the function names that occur as a token in the body of any function
TaggedNames(fs, st) ==
    { tok \in UNION { Range(fs[i][2]) : i \in DOMAIN fs } :
        tok \in DOMAIN st /\ st[tok] = "FUNC" }

TagFunctionsUntagged(fs, st, ref) == ref

TagFunctions(fs, st, ref) ==
    [ n \in DOMAIN ref \cup TaggedNames(fs, st) |->
        IF n \in TaggedNames(fs, st) THEN TRUE ELSE ref[n] ]

StringConstantNameQuoted(count) == "\"hi\""

StringConstantName(count) == "STR_" \o Format(count, 16, 4)

\* the scan of LocateStringConstants from token i of function fi on
RECURSIVE LocateFrom(_, _, _)
LocateFrom(st, fi, i) ==
    IF st.err # "" \/ fi > Len(st.funcs) THEN st
    ELSE LET key  == st.funcs[fi][1]
             body == st.funcs[fi][2]
         IN
         IF ~ st.referenced[key] \/ i > Len(body)
         THEN LocateFrom(st, fi + 1, 1)
         ELSE IF isStringConstant(Chars(body[i]))
         THEN LET name == StringConstantName(st.stringCount)
                  set  == [st EXCEPT
                             !.stringCount = @ + 1,
                             !.str = Put(@, name, body[i]),
                             !.symtbl = (name :> "STR") @@ @,
                             !.funcs[fi][2][i] = name]
              IN  IF Duplicate(st.names, name)
                  THEN Fail(set, "Duplicate name found")
                  ELSE LocateFrom([set EXCEPT !.names = AddName(@, name)],
                                  fi, i + 1)
         ELSE LocateFrom(st, fi, i + 1)

LocateStringConstants(st) ==
    LocateFrom([st EXCEPT !.referenced = ("main" :> TRUE) @@ @], 1, 1)

\* Dependencies(names), with self.dependencies passed in and returned
RECURSIVE Dependencies(_, _)
Dependencies(deps, ns) ==
    IF ns = <<>> THEN deps
    ELSE IF Head(ns) \in Range(deps)
    THEN Dependencies(deps, Tail(ns))
    ELSE Dependencies(
           Dependencies(Append(deps, Head(ns)), DEPENDENCIES[Head(ns)]),
           Tail(ns))

\* the elements of s in order of first occurrence
RECURSIVE Unique(_, _)
Unique(s, acc) ==
    IF s = <<>> THEN acc
    ELSE Unique(Tail(s),
                IF Head(s) \in Range(acc) THEN acc ELSE Append(acc, Head(s)))

RECURSIVE Flatten(_)
Flatten(ss) == IF ss = <<>> THEN <<>> ELSE Head(ss) \o Flatten(Tail(ss))

\* the tokens of all function bodies, in order
BodyTokens(fs) == Flatten([ i \in DOMAIN fs |-> fs[i][2] ])

\* the library words used: every body token that is a key of LIBRARYMAP
LibraryWords(fs) ==
    Unique(SelectSeq(BodyTokens(fs), LAMBDA t : t \in DOMAIN LIBRARYMAP), <<>>)

LibraryRoutines(fs, st, deps) ==
    LET words   == LibraryWords(fs)
        marked  == [ t \in DOMAIN st \cup Range(words) |->
                       IF t \in Range(words) THEN "LIB" ELSE st[t] ]
        labels  == [ i \in DOMAIN words |-> LIBRARYMAP[words[i]] ]
        missing == \E i \in DOMAIN labels : labels[i] \notin DOMAIN DEPENDENCIES
        depends == Unique(Flatten([ i \in DOMAIN labels |->
                                      DEPENDENCIES[labels[i]] ]), <<>>)
    IN  IF missing
        THEN [lib |-> words, symtbl |-> marked, dependencies |-> deps,
              err |-> "KeyError"]
        ELSE [lib |-> words, symtbl |-> marked,
              dependencies |-> Dependencies(deps, depends), err |-> ""]


---------------------------------------------------------------------------
(* The code generator *)

\* GetLabel(name) when self.counter is n
GetLabelUnnumbered(name, n) == name \o "_A00000"

GetLabel(name, n) == name \o "_A" \o Format(n, 10, 5)

Emit(st, records) == [st EXCEPT !.fasm = @ \o records]

CompileByte(num, base) ==
    LET v == num % 256 IN
    IF base = 16 THEN "$" \o Format(v, 16, 2)
    ELSE IF base = 8 THEN "@" \o Format(v, 8, 3)
    ELSE IF base = 2 THEN "%" \o Format(v, 2, 8)
    ELSE Format(v, 10, 1)

CompileWord(num, base) ==
    LET v == num % 65536 IN
    IF base = 16 THEN "$" \o Format(v, 16, 4)
    ELSE IF base = 8 THEN "@" \o Format(v, 8, 5)
    ELSE IF base = 2 THEN "%" \o Format(v, 2, 16)
    ELSE Format(v, 10, 1)

\* num & 0xFFFFFFFF as its high and low 16-bit halves <<hi, lo>>
Halves(num) == <<(num \div 65536) % 65536, num % 65536>>

\* format() of the 32-bit number with halves h, by long division
RECURSIVE FormatDouble(_, _, _)
FormatDouble(h, base, width) ==
    IF h[1] = 0 /\ h[2] < base /\ width <= 1 THEN DigitChar[h[2] + 1]
    ELSE LET t == (h[1] % base) * 65536 + h[2]
         IN  FormatDouble(<<h[1] \div base, t \div base>>, base, width - 1)
             \o DigitChar[(t % base) + 1]

CompileDouble(num, base) ==
    LET v == Halves(num) IN
    IF base = 16 THEN "$" \o FormatDouble(v, 16, 8)
    ELSE IF base = 8 THEN "@" \o FormatDouble(v, 8, 11)
    ELSE IF base = 2 THEN "%" \o FormatDouble(v, 2, 32)
    ELSE FormatDouble(v, 10, 1)

\* the value a literal stands for once its unary operator is applied
Signed(sign, mag) ==
    IF sign = -1 THEN (0 - mag) - 1
    ELSE IF sign = -2 THEN 0 - mag
    ELSE mag

Push(operand) == << <<"", "LDD", "#" \o operand>>, <<"", "PSHU", "D">> >>

\* CompileNumber(token) after its first line: n is LiteralInteger(token)
CompileNumber(st, n) ==
    IF ~ n.ok
    THEN Fail(st, IF n.raised THEN "Illegal number" ELSE "AttributeError")
    ELSE IF ~ n.bound THEN Fail(st, "Value out of bounds")
    ELSE IF n.size = 4
    THEN Emit(st, Push(CompileWord(Signed(n.sign, n.mag), n.base))
                  \o Push(CompileWord(Signed(n.sign, n.mag) \div 65536, n.base)))
    ELSE IF n.size = 2 \/ n.size = 0
    THEN Emit(st, Push(CompileWord(Signed(n.sign, n.mag), n.base)))
    ELSE Emit(st, Push(CompileWord(Signed(n.sign, n.mag % 256), n.base)))

\* CompileVariableRef, CompileDataBlockRef, CompileStringConstantRef
CompileAddressRef(st, name) ==
    Emit(st, << <<"", "LDY", "#" \o name>>, <<"", "PSHU", "Y">> >>)

CompileCodeBlockRef(st, name) == Emit(st, << <<"", "JSR", name>> >>)

CompileLibraryRef(st, token) ==
    Emit(st, << <<"", "JSR", LIBRARYMAP[token]>> >>)

CompileLoopBegin(st) ==
    LET t == GetLabel("loop", st.counter) IN
    [st EXCEPT !.fasm = Append(@, <<t, "", "">>),
               !.loop = Append(@, <<t, GetLabel("loop2", st.counter + 1)>>),
               !.counter = @ + 2]

CompileLoopEndUnchecked(st) == st

CompileLoopEnd(st) ==
    IF st.loop = <<>> THEN Fail(st, "Loop underflow!")
    ELSE LET t == st.loop[Len(st.loop)] IN
         [st EXCEPT !.loop = SubSeq(@, 1, Len(@) - 1),
                    !.fasm = @ \o << <<"", "JMP", t[1]>>, <<t[2], "", "">> >>]

\* CompileIf and CompileNotIf: first is the branch taken to the label t
CompileTest(st, first, second) ==
    LET t_else == GetLabel("else", st.counter)
        t_then == GetLabel("then", st.counter + 1)
        t      == GetLabel("t", st.counter + 2)
        t_end  == GetLabel("tend", st.counter + 3)
    IN  [st EXCEPT
           !.counter = @ + 4,
           !.compare = Append(@, <<t_else, t_then, FALSE, t_end>>),
           !.fasm = @ \o << <<"", "PULU", "D">>, <<"", "TSTD", "">>,
                            <<"", first, t>>, <<"", second, t_then>>,
                            <<t, "JMP", t_else>>, <<t_then, "", "">> >>]

CompileIf(st) == CompileTest(st, "BEQ", "BNE")

CompileNotIf(st) == CompileTest(st, "BNE", "BEQ")

CompileElse(st) ==
    IF st.compare = <<>> THEN Fail(st, "IndexError")
    ELSE LET top == st.compare[Len(st.compare)] IN
         [st EXCEPT !.compare[Len(st.compare)][3] = TRUE,
                    !.fasm = @ \o << <<"", "JMP", top[4]>>, <<top[1], "", "">> >>]

CompileThenAtElseLabel(st) ==
    IF st.compare = <<>> THEN Fail(st, "Compare underflow!")
    ELSE [st EXCEPT !.compare = SubSeq(@, 1, Len(@) - 1),
                    !.fasm = Append(@, <<st.compare[Len(st.compare)][1], "", "">>)]

CompileThen(st) ==
    IF st.compare = <<>> THEN Fail(st, "Compare underflow!")
    ELSE LET top == st.compare[Len(st.compare)] IN
         [st EXCEPT !.compare = SubSeq(@, 1, Len(@) - 1),
                    !.fasm = Append(@, IF ~ top[3] THEN <<top[1], "", "">>
                                       ELSE <<top[4], "", "">>)]

CompileBreak(st) ==
    IF st.loop = <<>> THEN Fail(st, "IndexError")
    ELSE Emit(st, << <<"", "JMP", st.loop[Len(st.loop)][2]>> >>)

\* self.fasam is not an attribute of the compiler
CompileCont(st) ==
    IF st.loop = <<>> THEN Fail(st, "IndexError")
    ELSE Fail(st, "AttributeError")

\* CompileIfBreak, CompileIfCont, CompileNotIfBreak: pop, test, skip or jump
CompileIfJump(st, name, skip, target) ==
    IF st.loop = <<>> THEN Fail(st, "IndexError")
    ELSE LET t == st.loop[Len(st.loop)]
             q == GetLabel(name, st.counter)
         IN  [st EXCEPT
                !.counter = @ + 1,
                !.fasm = @ \o << <<"", "PULU", "D">>, <<"", "TSTD", "">>,
                                 <<"", skip, q>>, <<"", "JMP", t[target]>>,
                                 <<q, "", "">> >>]

CompileIfBreak(st) == CompileIfJump(st, "break", "BEQ", 2)

CompileIfCont(st) == CompileIfJump(st, "ifcont", "BEQ", 1)

CompileNotIfBreak(st) == CompileIfJump(st, "notifbreak", "BNE", 2)

\* self.fashm is not an attribute of the compiler; the label is taken first
CompileNotIfCont(st) ==
    IF st.loop = <<>> THEN Fail(st, "IndexError")
    ELSE Fail([st EXCEPT !.counter = @ + 1], "AttributeError")

CompileReturn(st) == Emit(st, << <<"", "RTS", "">> >>)

FunctionAddress(st) == [st EXCEPT !.functionAddress = TRUE]

\* self.keywords[token]()
CompileKeyword(st, token) ==
    CASE token = "{"       -> CompileLoopBegin(st)
      [] token = "}"       -> CompileLoopEnd(st)
      [] token = "if"      -> CompileIf(st)
      [] token = "0if"     -> CompileNotIf(st)
      [] token = "else"    -> CompileElse(st)
      [] token = "then"    -> CompileThen(st)
      [] token = "break"   -> CompileBreak(st)
      [] token = "cont"    -> CompileCont(st)
      [] token = "?break"  -> CompileIfBreak(st)
      [] token = "?cont"   -> CompileIfCont(st)
      [] token = "?0break" -> CompileNotIfBreak(st)
      [] token = "?0cont"  -> CompileNotIfCont(st)
      [] token = "return"  -> CompileReturn(st)
      [] token = "&"       -> FunctionAddress(st)
      [] OTHER             -> Fail(st, "KeyError")

\* the inline sequences of the core words

CompileCoreStack(token) ==
    CASE token = "drop" ->
           CoreCode(<<<<";; DROP : ( a -- )", "", "">>, <<"", "LEAU", "2,U">>>>)
      [] token = "2drop" ->
           CoreCode(<<<<";; 2DROP : ( a b -- )", "", "">>, <<"", "LEAU", "4,U">>>>)
      [] token = "dup" ->
           CoreCode(<<<<";; DUP : ( a -- a a )", "", "">>, <<"", "LDD", "0,U">>, <<"", "PSHU", "D">>>>)
      [] token = "2dup" ->
           CoreCode(<<<<";; 2DUP : ( a b -- a b a b )", "", "">>, <<"", "LDD", "2,U">>, <<"", "PSHU", "D">>, <<"", "LDD", "2,U">>, <<"", "PSHU", "D">>>>)
      [] token = "nip" ->
           CoreCode(<<<<";; NIP : ( a b -- b )", "", "">>, <<"", "PULU", "D">>, <<"", "STD", "0,U">>>>)
      [] token = "over" ->
           CoreCode(<<<<";; OVER : ( a b -- a b a )", "", "">>, <<"", "LDD", "2,U">>, <<"", "PSHU", "D">>>>)
      [] token = "rot" ->
           CoreCode(<<<<";; ROT : ( a b c -- b c a )", "", "">>, <<"", "PULU", "D,Y">>, <<"", "PULUW", "">>, <<"", "PSHU", "D,Y">>, <<"", "PSHUW", "">>>>)
      [] token = "swap" ->
           CoreCode(<<<<";; SWAP : ( a b -- b a )", "", "">>, <<"", "PULU", "D,Y">>, <<"", "EXG", "D,Y">>, <<"", "PSHU", "D,Y">>>>)
      [] token = "2swap" ->
           CoreCode(<<<<";; 2SWAP : ( a b c d -- c d a b", "", "">>, <<"", "LDQ", "0,U">>, <<"", "PSHS", "D">>, <<"", "PSHSW", "">>, <<"", "LDQ", "4,U">>, <<"", "STQ", "0,U">>, <<"", "PULSW", "">>, <<"", "PULS", "D">>, <<"", "STQ", "4,U">>>>)
      [] OTHER -> CoreError("Unimplemented CORE STACK Function")

CompileCoreBitwise(token) ==
    CASE token = "b.and" ->
           CoreCode(<<<<";; B.AND : ( a b -- a AND b )", "", "">>, <<"", "PULU", "D">>, <<"", "ANDD", "0,U">>, <<"", "STD", "0,U">>>>)
      [] token = "b.or" ->
           CoreCode(<<<<";; B.OR : ( a b -- a OR b )", "", "">>, <<"", "PULU", "D">>, <<"", "ORD", "0,U">>, <<"", "STD", "0,U">>>>)
      [] token = "b.xor" ->
           CoreCode(<<<<";; B.XOR : ( a b -- a XOR b )", "", "">>, <<"", "PULU", "D">>, <<"", "EORD", "0,U">>, <<"", "STD", "0,U">>>>)
      [] token = "~" ->
           CoreCode(<<<<";; COMP (~) : ( a -- NOT a)", "", "">>, <<"", "LDD", "0,U">>, <<"", "EORD", "#$FFFF">>, <<"", "STD", "0,U">>>>)
      [] OTHER -> CoreError("Unimplemented CORE BITWISE Function")

CompileCoreArithmetic(token) ==
    CASE token = "+" ->
           CoreCode(<<<<";; ADD (+) : ( a b -- a+b )", "", "">>, <<"", "PULU", "D">>, <<"", "ADDD", "0,U">>, <<"", "STD", "0,U">>>>)
      [] token = "-" ->
           CoreCode(<<<<";; SUB (-) : ( a b -- a-b )", "", "">>, <<"", "PULU", "D">>, <<"", "SUBD", "0,U">>, <<"", "STD", "0,U">>>>)
      [] token = "1+" ->
           CoreCode(<<<<";; PLUS (+1) : ( a -- a+1 )", "", "">>, <<"", "LDD", "0,U">>, <<"", "ADDD", "#1">>, <<"", "STD", "0,U">>>>)
      [] token = "2+" ->
           CoreCode(<<<<";; PLUS2 (+2) : ( a -- a+2 )", "", "">>, <<"", "LDD", "0,U">>, <<"", "ADDD", "#2">>, <<"", "STD", "0,U">>>>)
      [] token = "1-" ->
           CoreCode(<<<<";; MINUS1 (-1) : ( a -- a-1 )", "", "">>, <<"", "LDD", "0,U">>, <<"", "SUBD", "#1">>, <<"", "STD", "0,U">>>>)
      [] token = "2-" ->
           CoreCode(<<<<";; MINUS2 (-2) : ( a -- a-2 )", "", "">>, <<"", "LDD", "0,U">>, <<"", "SUBD", "#2">>, <<"", "STD", "0,U">>>>)
      [] token = "*" ->
           CoreCode(<<<<";; MULT16 (*) : ( a b -- a*b )", "", "">>, <<"", "PULU", "D">>, <<"", "MULD", "0,U">>, <<"", "STW", "0,U">>>>)
      [] token = "/" ->
           CoreCode(<<<<";; DIV16 (*) intrinsic", "", "">>, <<"", "PULUW", "">>, <<"", "CLRD", "">>, <<"", "DIVQ", "0,U">>, <<"", "STW", "2,U">>>>)
      [] token = "mod" ->
           CoreCode(<<<<";; MOD16 (*) : ( a b -- a%b )", "", "">>, <<"", "PULUW", "">>, <<"", "CLRD", "">>, <<"", "DIVQ", "0,U">>, <<"", "STD", "2,U">>>>)
      [] token = "negate" ->
           CoreCode(<<<<";; NEGATE : ( a -- -a)", "", "">>, <<"", "LDD", "#0">>, <<"", "SUBD", "0,U">>, <<"", "STD", "0,U">>>>)
      [] OTHER -> CoreError("Unimplemented CORE ARITHMETIC Function")

CompileCoreCall(token) ==
    CASE token = ">x" ->
           CoreCode(<<<<";; TO_XREG (>x) : ( a -- ) pop TOS into XREG storage", "", "">>, <<"", "PULU", "D">>, <<"", "STD", "xreg">>>>)
      [] token = "x>" ->
           CoreCode(<<<<";; FROM_XREG (x>) : ( -- a ) place XREG storage onto TOS", "", "">>, <<"", "LDD", "xreg">>, <<"", "PSHU", "D">>>>)
      [] token = ">y" ->
           CoreCode(<<<<";; TO_YREG (>y) : ( a -- ) pop TOS into YREG storage", "", "">>, <<"", "PULU", "D">>, <<"", "STD", "yreg">>>>)
      [] token = "y>" ->
           CoreCode(<<<<";; FROM_YREG (y>) : ( -- a ) place YREG storage onto TOS", "", "">>, <<"", "LDD", "yreg">>, <<"", "PSHU", "D">>>>)
      [] token = ">d" ->
           CoreCode(<<<<";; TO_DREG (>y) : ( a -- ) pop TOS into DREG storage", "", "">>, <<"", "PULU", "D">>, <<"", "STD", "dreg">>>>)
      [] token = "d>" ->
           CoreCode(<<<<";; FROM_DREG (y>) : ( -- a ) place DREG storage onto TOS", "", "">>, <<"", "LDD", "dreg">>, <<"", "PSHU", "D">>>>)
      [] token = ">u" ->
           CoreCode(<<<<";; TO_UREG (>y) : ( a -- ) pop TOS into UREG storage", "", "">>, <<"", "PULU", "D">>, <<"", "STD", "ureg">>>>)
      [] token = "u>" ->
           CoreCode(<<<<";; FROM_UREG (y>) : ( -- a ) place DREG storage onto TOS", "", "">>, <<"", "LDD", "ureg">>, <<"", "PSHU", "D">>>>)
      [] OTHER -> CoreError("Unimplemented CORE CALL Function")

CompileCoreAccess(token) ==
    CASE token = "!" ->
           CoreCode(<<<<";; STORE (!) : ( a b -- ) store word a at addr b", "", "">>, <<"", "PULU", "Y">>, <<"", "PULU", "D">>, <<"", "STD", "0,Y">>>>)
      [] token = "c!" ->
           CoreCode(<<<<";; CSTORE (c!) : ( a b -- ) store byte a at addr b", "", "">>, <<"", "PULU", "Y">>, <<"", "PULU", "D">>, <<"", "STB", "0,Y">>>>)
      [] token = "d!" ->
           CoreCode(<<<<";; DSTORE (d!) ( a b c -- ) store dword a:b at addr c", "", "">>, <<"", "PULU", "Y">>, <<"", "PULU", "D">>, <<"", "STD", "0,Y">>, <<"", "PULU", "D">>, <<"", "STD", "2,Y">>>>)
      [] token = "@" ->
           CoreCode(<<<<";; FETCH (@) : ( a -- b ) read word b from addr a", "", "">>, <<"", "PULU", "Y">>, <<"", "LDD", "0,Y">>, <<"", "PSHU", "D">>>>)
      [] token = "c@" ->
           CoreCode(<<<<";; CFETCH (c@) : ( a -- b ) read word b from byte at addr a", "", "">>, <<"", "PULU", "Y">>, <<"", "LDB", "0,Y">>, <<"", "CLRA", "">>, <<"", "PSHU", "D">>>>)
      [] token = "d@" ->
           CoreCode(<<<<";; DFETCH (d@) : ( a -- b c ) read dword b:c from addr a", "", "">>, <<"", "PULU", "Y">>, <<"", "LDD", "2,Y">>, <<"", "PSHU", "D">>, <<"", "LDD", "0,Y">>, <<"", "PSHU", "D">>>>)
      [] token = "+!" ->
           CoreCode(<<<<";; ADDSTORE (+!) : ( a b -- ) add word b to word at addr a", "", "">>, <<"", "PULU", "D">>, <<"", "PULU", "Y">>, <<"", "ADDD", "0,Y">>, <<"", "STD", "0,Y">>>>)
      [] token = "++" ->
           CoreCode(<<<<";; INCADDR (++) : ( a -- ) increment word at addr a", "", "">>, <<"", "PULU", "Y">>, <<"", "LDD", "0,Y">>, <<"", "INCD", "">>, <<"", "STD", "0,Y">>>>)
      [] token = "c++" ->
           CoreCode(<<<<";; INCCADDR (c++) : ( a -- ) increment byte at addr a", "", "">>, <<"", "PULU", "Y">>, <<"", "INC", "0,Y">>>>)
      [] token = "--" ->
           CoreCode(<<<<";; DECADDR (--) : ( a -- ) decrement word at addr a", "", "">>, <<"", "PULU", "Y">>, <<"", "LDD", "0,Y">>, <<"", "DECD", "">>, <<"", "STD", "0,Y">>>>)
      [] token = "c--" ->
           CoreCode(<<<<";; DECCADDR (c--) : ( a -- ) decrement byte at addr a", "", "">>, <<"", "PULU", "Y">>, <<"", "DEC", "0,Y">>>>)
      [] OTHER -> CoreError("Unimplemented CORE ACCESS Function")

\* self.corewords[token](token)
CompileCoreword(st, token) ==
    LET r == IF token \in CoreStackWords THEN CompileCoreStack(token)
             ELSE IF token \in CoreBitwiseWords THEN CompileCoreBitwise(token)
             ELSE IF token \in CoreArithmeticWords
             THEN CompileCoreArithmetic(token)
             ELSE IF token \in CoreAccessWords THEN CompileCoreAccess(token)
             ELSE IF token \in CoreCallWords THEN CompileCoreCall(token)
             ELSE CoreError("KeyError")
    IN  IF r.err # "" THEN Fail(st, r.err) ELSE Emit(st, r.code)

\* a function name: its address after &, else a call
CompileFunctionRef(st, name) ==
    IF st.functionAddress
    THEN [st EXCEPT !.fasm = @ \o << <<"", "LDD", "#" \o name>>,
                                    <<"", "PSHU", "D">> >>,
                    !.functionAddress = FALSE]
    ELSE Emit(st, << <<"", "JSR", name>> >>)

\* a library word: the word's address after &, else a call of its routine
CompileLibraryWord(st, token) ==
    IF st.functionAddress
    THEN [st EXCEPT !.fasm = @ \o << <<"", "LDD", "#" \o token>>,
                                    <<"", "PSHU", "D">> >>,
                    !.functionAddress = FALSE]
    ELSE CompileLibraryRef(st, token)

\* strip('\n ')
RECURSIVE Strip(_)
Strip(s) ==
    IF s # <<>> /\ s[1] \in {"\n", " "} THEN Strip(Tail(s))
    ELSE IF s # <<>> /\ s[Len(s)] \in {"\n", " "}
    THEN Strip(SubSeq(s, 1, Len(s) - 1))
    ELSE s

CompileInlineCode(st, token) ==
    Emit(st, << <<"; Inline ASM code", "", "">>,
                <<Text(Strip(SubSeq(Chars(token), 3, Len(Chars(token)) - 2))), "", "">>,
                <<"", "", "">> >>)

\* the body of the token loop of CompileFunctions
CompileToken(st, ctx, token) ==
    IF token \in DOMAIN ctx.symtbl
    THEN LET kind == ctx.symtbl[token] IN
         IF kind \in {"FUNC", "VAR", "DATA", "CODE", "STR"}
            /\ token \notin DOMAIN ctx.names
         THEN Fail(st, "KeyError")
         ELSE IF kind = "FUNC" THEN CompileFunctionRef(st, ctx.names[token])
         ELSE IF kind \in {"VAR", "DATA", "STR"}
         THEN CompileAddressRef(st, ctx.names[token])
         ELSE IF kind = "CODE" THEN CompileCodeBlockRef(st, ctx.names[token])
         ELSE IF kind = "CONST"
         THEN CompileNumber(st, LiteralInteger(Chars(ctx.consts[token])))
         ELSE IF kind = "KWD" THEN CompileKeyword(st, token)
         ELSE IF kind = "CORE" THEN CompileCoreword(st, token)
         ELSE IF kind = "LIB" THEN CompileLibraryWord(st, token)
         ELSE Fail(st, "Unknown symbol table type")
    ELSE IF isNumber(Chars(token))
    THEN CompileNumber(st, LiteralInteger(Chars(token)))
    ELSE IF isInlineCode(Chars(token)) THEN CompileInlineCode(st, token)
    ELSE Fail(st, "Unknown token")

RECURSIVE CompileBody(_, _, _)
CompileBody(st, ctx, body) ==
    IF st.err # "" THEN st
    ELSE IF body = <<>> THEN Emit(st, << <<"", "RTS", "">> >>)
    ELSE CompileBody(CompileToken(st, ctx, Head(body)), ctx, Tail(body))

\* the function loop of CompileFunctions from function fi on
RECURSIVE CompileFunctionsFrom(_, _, _)
CompileFunctionsFrom(st, ctx, fi) ==
    IF st.err # "" \/ fi > Len(ctx.funcs) THEN st
    ELSE LET f == ctx.funcs[fi][1] IN
         IF ctx.referenced[f]
         THEN CompileFunctionsFrom(
                CompileBody([st EXCEPT !.loop = <<>>, !.compare = <<>>,
                                       !.fasm = Append(@, <<ctx.names[f], "", "">>)],
                            ctx, ctx.funcs[fi][2]),
                ctx, fi + 1)
         ELSE CompileFunctionsFrom(st, ctx, fi + 1)

CompileFunctions(st, ctx) ==
    CompileFunctionsFrom([st EXCEPT !.fasm = <<>>], ctx, 1)

---------------------------------------------------------------------------
(* CompileDataBlocks and CompileCodeBlocks *)

\* the directive of one number of a data block: n is
\* LiteralInteger(number)
DataDirective(n) ==
    IF n.size = 4
    THEN <<"", "FQB", CompileDouble(Signed(n.sign, n.mag), n.base)>>
    ELSE IF n.size = 2 \/ n.size = 0
    THEN <<"", "FDB", CompileWord(Signed(n.sign, n.mag), n.base)>>
    ELSE <<"", "FCB", CompileByte(Signed(n.sign, n.mag), n.base)>>

\* the bounds check of CompileDataBlocks fails for some number
DataOutOfBounds(blocks) ==
    \E i \in DOMAIN blocks : \E j \in DOMAIN blocks[i][2] :
        ~ LiteralInteger(Chars(blocks[i][2][j])).bound

CompileDataBlocks(blocks, nm) ==
    Flatten([ i \in DOMAIN blocks |->
                << <<nm[blocks[i][1]], "", "">> >>
                \o [ j \in DOMAIN blocks[i][2] |->
                       DataDirective(LiteralInteger(Chars(blocks[i][2][j]))) ] ])

CompileCodeBlocks(blocks, nm) ==
    Flatten([ i \in DOMAIN blocks |->
                << <<nm[blocks[i][1]], "", "">>,
                   <<Text(Strip(blocks[i][2])), "", "">> >> ])

---------------------------------------------------------------------------
(* AssemblyOutput *)

RECURSIVE SumSizes(_)
SumSizes(vs) == IF vs = <<>> THEN 0 ELSE vs[1][2] + SumSizes(Tail(vs))

\* the variable region opened at the top instead of below it
VariableOriginAtTop(top, vs) == top

\* the operand of the ORG that opens the variable region
VariableOrigin(top, vs) == top - SumSizes(vs)

\* the reservations that follow it, one per variable
Reservations(vs, nm) == [ i \in DOMAIN vs |-> <<nm[vs[i][1]], vs[i][2]>> ]

\* the operand of the ORG of the code
CodeOrigin(s, o) == IF s THEN 8192 ELSE o

\* the library files copied into the output, in order
LibraryFiles(ws) == [ i \in DOMAIN ws |-> LIBRARYMAP[ws[i]] ]

NoFile ==
    [opened |-> FALSE, equates |-> <<>>, varOrg |-> 0, rmb |-> <<>>,
     varEnd |-> 0, org |-> 0, entry |-> <<>>, dasm |-> <<>>, casm |-> <<>>,
     strings |-> <<>>, libs |-> <<>>, fasm |-> <<>>]

MainUndeclared(st) == "main" \notin DOMAIN st

MainMissing(st) == "main" \notin DOMAIN st \/ st["main"] # "FUNC"


---------------------------------------------------------------------------
(* Tokenize *)

\* c <= " "
isSpace(c) == c \in {" ", "\n", "\t", "\r"}

LexStart ==
    [t |-> <<>>, delim |-> "", inToken |-> FALSE, inString |-> FALSE,
     inComment |-> FALSE, inCode |-> FALSE]

\* inside a block or line comment: the body of the branch "elif (inComment)"
CommentChar(lx, c) ==
    IF c = lx.delim
    THEN IF lx.delim = "*" THEN [lx EXCEPT !.delim = "/"]
         ELSE [lx EXCEPT !.t = <<>>, !.inComment = FALSE]
    ELSE IF lx.delim # "\n" THEN [lx EXCEPT !.delim = "*"]
    ELSE lx

\* one turn of the loop "for c in self.source"; yields the locals and the
\* token list
TokenizeChar(lx, toks, c) ==
    IF lx.inString THEN
        IF c = lx.delim
        THEN [lex |-> [lx EXCEPT !.t = <<>>, !.inString = FALSE],
              tokens |-> Append(toks, Append(lx.t, c))]
        ELSE [lex |-> [lx EXCEPT !.t = Append(@, c)], tokens |-> toks]
    ELSE IF lx.inComment THEN
        [lex |-> CommentChar(lx, c), tokens |-> toks]
    ELSE IF lx.inCode THEN
        IF lx.t = <<>> /\ c = "\n"
        THEN [lex |-> lx, tokens |-> toks]
        ELSE IF c = lx.delim
        THEN IF lx.delim = "#"
             THEN [lex |-> [lx EXCEPT !.t = Append(@, c), !.delim = "/"],
                   tokens |-> toks]
             ELSE [lex |-> [lx EXCEPT !.t = <<>>, !.inCode = FALSE],
                   tokens |-> Append(toks, Append(lx.t, c))]
        ELSE [lex |-> [lx EXCEPT !.t = Append(@, c), !.delim = "#"],
              tokens |-> toks]
    ELSE IF lx.inToken THEN
        IF lx.t = <<"/">> /\ c = "#"
        THEN [lex |-> [lx EXCEPT !.t = Append(@, c), !.inCode = TRUE,
                                 !.inToken = FALSE, !.delim = "#"],
              tokens |-> toks]
        ELSE IF lx.t = <<"/">> /\ c = "*"
        THEN [lex |-> [lx EXCEPT !.t = <<>>, !.inComment = TRUE,
                                 !.inToken = FALSE, !.delim = "*"],
              tokens |-> toks]
        ELSE IF isSpace(c)
        THEN [lex |-> [lx EXCEPT !.t = <<>>, !.inToken = FALSE],
              tokens |-> Append(toks, lx.t)]
        ELSE [lex |-> [lx EXCEPT !.t = Append(@, c)], tokens |-> toks]
    ELSE
        IF c \in {"\"", "'"}
        THEN [lex |-> [lx EXCEPT !.inString = TRUE, !.delim = c, !.t = <<c>>],
              tokens |-> toks]
        ELSE IF c = "#"
        THEN [lex |-> [lx EXCEPT !.inComment = TRUE, !.delim = "\n",
                                 !.t = <<>>],
              tokens |-> toks]
        ELSE IF isSpace(c)
        THEN [lex |-> lx, tokens |-> toks]
        ELSE [lex |-> [lx EXCEPT !.t = Append(@, c), !.inToken = TRUE],
              tokens |-> toks]


---------------------------------------------------------------------------
(* The programs compiled *)

MaxBody == 3

MaxVars == 2

MaxSource == 5

Seqs(W, n) == UNION { [1..k -> W] : k \in 0..n }

\* the function names of a program, in declaration order
FunctionLists ==
    { <<"main">>, <<"f", "main">>, <<"f", "main", "g">>, <<"f", "g">> }

DeclPrefix ==
    <<"var", "a", "2", "const", "k", "2", "str", "s", "\"hi\"",
      "data", "d", "b'1", "2", "end", "code", "c", "/# nop #/">>

\* the declarations before the functions and the words of their bodies
Families ==
    { [prefix |-> <<>>,        words |-> {"f", "g", "&", "1"}],
      [prefix |-> <<>>,        words |-> {".", "emit", "&", "f"}],
      [prefix |-> <<>>,        words |-> {"swap", "/", "++", "u>"}],
      [prefix |-> DeclPrefix,  words |-> {"a", "k", "s", "c"}] }

\* where a body text s is cut into the bodies of n functions
Cuts(s, n) ==
    { cs \in [1..(n - 1) -> 0..Len(s)] :
        \A i \in 1..(n - 2) : cs[i] <= cs[i + 1] }

Piece(s, cs, n, i) ==
    SubSeq(s, (IF i = 1 THEN 0 ELSE cs[i - 1]) + 1,
              IF i = n THEN Len(s) ELSE cs[i])

\* the token list of a program; the last function is left open when
\* closed is false
ProgramText(prefix, fl, s, cs, closed) ==
    prefix \o
    Flatten([ i \in DOMAIN fl |->
                <<":", fl[i]>> \o Piece(s, cs, Len(fl), i)
                \o (IF i = Len(fl) /\ ~ closed THEN <<>> ELSE <<";">>) ])

CodePrograms ==
    UNION { UNION { UNION {
        { ProgramText(fam.prefix, fl, s, cs, closed) :
            cs \in Cuts(s, Len(fl)), closed \in BOOLEAN }
        : s \in Seqs(fam.words, MaxBody) }
        : fl \in FunctionLists }
        : fam \in Families }

VarNames == <<"a", "b", "c", "g">>

LayoutPrograms ==
    { o \o Flatten([ i \in DOMAIN sz |-> <<"var", VarNames[i], sz[i]>> ])
        \o <<":", "main", ";">> :
        o \in { <<>>, <<"org", "0x2000">>, <<"org", "0x3000">> },
        sz \in Seqs({"1", "2", "40000"}, MaxVars) }

\* two top-level declarations of the names "a" and "main", of any two forms
\* and in either order, followed by a function f; and one declaration, of
\* any form, of a name of some syntax, followed by main
DeclarationPrograms ==
    LET Decl(form, n) ==
            CASE form = "var"   -> <<"var", n, "2">>
              [] form = "const" -> <<"const", n, "2">>
              [] form = "str"   -> <<"str", n, "\"hi\"">>
              [] form = "data"  -> <<"data", n, "2", "end">>
              [] form = "code"  -> <<"code", n, "/# nop #/">>
              [] form = "def"   -> <<"def", n, "end">>
              [] OTHER          -> <<":", n, ";">>
    IN  { Decl(f1, n1) \o Decl(f2, n2) \o <<":", "f", ";">> :
            f1 \in {"var", "const", "str", "data", "code", "def", ":"},
            f2 \in {"var", "const", "str", "data", "code", "def", ":"},
            n1 \in {"a", "main"}, n2 \in {"a", "main"} }
        \cup
        { Decl(f1, n1) \o <<":", "main", ";">> :
            f1 \in {"var", "const", "str", "data", "code", "def", ":"},
            n1 \in {"a", "A1", "a_1", "_a", "1a", "a-b"} }

\* a function f that leaves a loop or a test open, or neither, and is
\* called by main, whose body is made of the words of loops and tests;
\* main alone with a body made of loops and the words that leave them; and
\* main alone with a longer body of tests, nested or not, and open loops
ControlPrograms ==
    { <<":", "f">> \o b1 \o <<";", ":", "main">> \o b2 \o <<";">> :
        b1 \in Seqs({"{", "if"}, 1),
        b2 \in Seqs({"f", "{", "}", "if", "0if", "else", "then"}, MaxBody) }
    \cup
    { <<":", "main">> \o b \o <<";">> :
        b \in Seqs({"{", "}", "break", "cont", "?break", "?cont", "?0break",
                    "?0cont"}, MaxBody) }
    \cup
    { <<":", "main">> \o b \o <<";">> :
        b \in Seqs({"if", "else", "then", "{"}, MaxBody + 2) }

\* one literal, with or without a unary operator and a storage specifier
\* and in each base, as the body of main, as the value of a constant that
\* main names, and as the value of a data block
LiteralPrograms ==
    LET literals == {
            "b'0xFF", "b'0x100", "b'255", "b'256", "b'0377",
            "b'0400", "b'0b11111111", "-b'128", "-b'129",
            "~b'128", "~b'129", "-b'1", "~b'1", "-b'0x80",
            "~b'0x7F", "+b'1", "+b'256", "w'0xFFFF", "w'0x10000",
            "-w'32768", "-w'32769", "~w'32769", "+w'0x10",
            "d'1", "-d'1", "d'0x10000", "65535", "65536",
            "70000", "0xFFFF", "0x10000", "0177777", "0200000",
            "0b1", "0b10000000000000000", "-1", "~1" }
    IN  { <<":", "main", t, ";">> : t \in literals }
        \cup { <<"const", "k", t, ":", "main", "k", ";">> : t \in literals }
        \cup { <<"data", "d", t, "end", ":", "main", ";">> : t \in literals }

\* main pushes two numbers and applies a core word that takes two operands
ArithmeticPrograms ==
    { <<":", "main", a, b, w, ";">> :
        a \in {"1", "2", "7"}, b \in {"1", "2", "7"}, w \in {"-", "/", "mod"} }

\* a function f and main, with string constants in their bodies, after
\* nothing or after the declaration of a string of a generated name
StringPrograms ==
    { p \o <<":", "f">> \o b1 \o <<";", ":", "main">> \o b2 \o <<";">> :
        p \in { <<>>, <<"str", "STR_0001", "\"hi\"">> },
        b1 \in Seqs({"\"hi\"", "1"}, MaxBody - 1),
        b2 \in Seqs({"\"hi\"", "f", "1"}, MaxBody - 1) }

\* main applies one library word
LibraryPrograms == { <<":", "main", w, ";">> : w \in DOMAIN LIBRARYMAP }

Sources == { Append(s, "\n") : s \in Seqs({"/", "*", "#", "\"", "a", " "}, MaxSource) }

---------------------------------------------------------------------------
(* The compilation as a state machine: Compile() *)

InitCommon ==
    /\ err = ""
    /\ org = 0
    /\ symtbl = Keywords @@ Corewords
    /\ names = EmptyMap
    /\ vars = <<>>
    /\ consts = EmptyMap
    /\ str = <<>>
    /\ dataBlocks = <<>>
    /\ codeBlocks = <<>>
    /\ funcs = <<>>
    /\ referenced = EmptyMap
    /\ stringCount = 0
    /\ counter = 0
    /\ lib = <<>>
    /\ dependencies = <<>>
    /\ functionAddress = FALSE
    /\ dasm = <<>>
    /\ casm = <<>>
    /\ fasm = <<>>
    /\ out = NoFile
    /\ calls = <<>>

\* the state after ParseCommandLine, Keywords, Corewords, LoadFiles and
\* Tokenize
Init ==
    /\ pc = "SetOrigin"
    /\ source = <<>>
    /\ srcPos = 0
    /\ lex = LexStart
    /\ \/ /\ tokens \in CodePrograms \cup DeclarationPrograms \cup ControlPrograms
                           \cup LiteralPrograms \cup ArithmeticPrograms
                           \cup StringPrograms \cup LibraryPrograms
          /\ cmdOrigin = -1
          /\ sys = FALSE
       \/ /\ tokens \in LayoutPrograms
          /\ cmdOrigin \in {-1, 12288}
          /\ sys \in BOOLEAN
    /\ table = DEPENDENCIES
    /\ InitCommon

\* the stage that follows, or the end of the compilation on an exception
Goto(stage, e) ==
    /\ pc' = IF e = "" THEN stage ELSE "failed"
    /\ err' = e

SetOriginStep ==
    /\ pc = "SetOrigin"
    /\ \E r \in {SetOrigin(tokens, cmdOrigin)} :
       /\ org' = r.org
       /\ Goto("Declarations", r.err)
    /\ UNCHANGED <<table, calls, source, srcPos, lex, tokens, cmdOrigin, sys, symtbl, names,
                   vars, consts, str, dataBlocks, codeBlocks, funcs,
                   referenced, stringCount, counter, lib, dependencies,
                   functionAddress, dasm, casm, fasm, out>>

DeclarationsStep ==
    /\ pc = "Declarations"
    /\ \E r \in {Declarations(tokens,
                  [vars |-> <<>>, consts |-> EmptyMap, str |-> <<>>,
                   symtbl |-> symtbl, names |-> names, indef |-> FALSE,
                   err |-> ""])} :
       /\ vars' = r.vars
       /\ consts' = r.consts
       /\ str' = r.str
       /\ symtbl' = r.symtbl
       /\ names' = r.names
       /\ Goto("ParseDataBlocks", r.err)
    /\ UNCHANGED <<table, calls, source, srcPos, lex, tokens, cmdOrigin, sys, org,
                   dataBlocks, codeBlocks, funcs, referenced, stringCount,
                   counter, lib, dependencies, functionAddress, dasm, casm,
                   fasm, out>>

ParseDataBlocksStep ==
    /\ pc = "ParseDataBlocks"
    /\ \E r \in {ParseDataBlocks(tokens, [symtbl |-> symtbl, names |-> names])} :
       /\ dataBlocks' = r.dataBlocks
       /\ symtbl' = r.symtbl
       /\ names' = r.names
       /\ Goto("ParseCodeBlocks", r.err)
    /\ UNCHANGED <<table, calls, source, srcPos, lex, tokens, cmdOrigin, sys, org, vars,
                   consts, str, codeBlocks, funcs, referenced, stringCount,
                   counter, lib, dependencies, functionAddress, dasm, casm,
                   fasm, out>>

ParseCodeBlocksStep ==
    /\ pc = "ParseCodeBlocks"
    /\ \E r \in {ParseCodeBlocks(tokens, [symtbl |-> symtbl, names |-> names])} :
       /\ codeBlocks' = r.codeBlocks
       /\ symtbl' = r.symtbl
       /\ names' = r.names
       /\ Goto("ParseFunctions", r.err)
    /\ UNCHANGED <<table, calls, source, srcPos, lex, tokens, cmdOrigin, sys, org, vars,
                   consts, str, dataBlocks, funcs, referenced, stringCount,
                   counter, lib, dependencies, functionAddress, dasm, casm,
                   fasm, out>>

ParseFunctionsStep ==
    /\ pc = "ParseFunctions"
    /\ \E r \in {ParseFunctions(tokens,
                  [symtbl |-> symtbl, names |-> names,
                   referenced |-> referenced])} :
       /\ funcs' = r.funcs
       /\ referenced' = r.referenced
       /\ symtbl' = r.symtbl
       /\ names' = r.names
       /\ Goto("TagFunctions", r.err)
    /\ UNCHANGED <<table, calls, source, srcPos, lex, tokens, cmdOrigin, sys, org, vars,
                   consts, str, dataBlocks, codeBlocks, stringCount, counter,
                   lib, dependencies, functionAddress, dasm, casm, fasm, out>>

TagFunctionsStep ==
    /\ pc = "TagFunctions"
    /\ referenced' = TagFunctions(funcs, symtbl, referenced)
    /\ Goto("LocateStringConstants", "")
    /\ UNCHANGED <<table, calls, source, srcPos, lex, tokens, cmdOrigin, sys, org, symtbl,
                   names, vars, consts, str, dataBlocks, codeBlocks, funcs,
                   stringCount, counter, lib, dependencies, functionAddress,
                   dasm, casm, fasm, out>>

LocateStringConstantsStep ==
    /\ pc = "LocateStringConstants"
    /\ \E r \in {LocateStringConstants(
                  [funcs |-> funcs, referenced |-> referenced, str |-> str,
                   symtbl |-> symtbl, names |-> names,
                   stringCount |-> stringCount, err |-> ""])} :
       /\ funcs' = r.funcs
       /\ referenced' = r.referenced
       /\ str' = r.str
       /\ symtbl' = r.symtbl
       /\ names' = r.names
       /\ stringCount' = r.stringCount
       /\ Goto("LibraryRoutines", r.err)
    /\ UNCHANGED <<table, calls, source, srcPos, lex, tokens, cmdOrigin, sys, org, vars,
                   consts, dataBlocks, codeBlocks, counter, lib, dependencies,
                   functionAddress, dasm, casm, fasm, out>>

LibraryRoutinesStep ==
    /\ pc = "LibraryRoutines"
    /\ \E r \in {LibraryRoutines(funcs, symtbl, dependencies)} :
       /\ lib' = r.lib
       /\ symtbl' = r.symtbl
       /\ dependencies' = r.dependencies
       /\ Goto("CompileDataBlocks", r.err)
    /\ UNCHANGED <<table, calls, source, srcPos, lex, tokens, cmdOrigin, sys, org, names,
                   vars, consts, str, dataBlocks, codeBlocks, funcs,
                   referenced, stringCount, counter, functionAddress, dasm,
                   casm, fasm, out>>

CompileDataBlocksStep ==
    /\ pc = "CompileDataBlocks"
    /\ dasm' = CompileDataBlocks(dataBlocks, names)
    /\ Goto("CompileCodeBlocks",
            IF DataOutOfBounds(dataBlocks) THEN "Value out of bounds" ELSE "")
    /\ UNCHANGED <<table, calls, source, srcPos, lex, tokens, cmdOrigin, sys, org, symtbl,
                   names, vars, consts, str, dataBlocks, codeBlocks, funcs,
                   referenced, stringCount, counter, lib, dependencies,
                   functionAddress, casm, fasm, out>>

CompileCodeBlocksStep ==
    /\ pc = "CompileCodeBlocks"
    /\ casm' = CompileCodeBlocks(codeBlocks, names)
    /\ Goto("CompileFunctions", "")
    /\ UNCHANGED <<table, calls, source, srcPos, lex, tokens, cmdOrigin, sys, org, symtbl,
                   names, vars, consts, str, dataBlocks, codeBlocks, funcs,
                   referenced, stringCount, counter, lib, dependencies,
                   functionAddress, dasm, fasm, out>>

CompileFunctionsStep ==
    /\ pc = "CompileFunctions"
    /\ \E r \in {CompileFunctions(
                  [fasm |-> fasm, functionAddress |-> functionAddress,
                   loop |-> <<>>, compare |-> <<>>, counter |-> counter,
                   err |-> ""],
                  [symtbl |-> symtbl, names |-> names, consts |-> consts,
                   funcs |-> funcs, referenced |-> referenced])} :
       /\ fasm' = r.fasm
       /\ functionAddress' = r.functionAddress
       /\ counter' = r.counter
       /\ Goto("AssemblyOutput", r.err)
    /\ UNCHANGED <<table, calls, source, srcPos, lex, tokens, cmdOrigin, sys, org, symtbl,
                   names, vars, consts, str, dataBlocks, codeBlocks, funcs,
                   referenced, stringCount, lib, dependencies, dasm, casm, out>>

\* what AssemblyOutput writes to the output file
OutputFile ==
    [opened  |-> TRUE,
     equates |-> EQUATES,
     varOrg  |-> VariableOrigin(VARTOP, vars),
     rmb     |-> Reservations(vars, names),
     varEnd  |-> VARTOP,
     org     |-> CodeOrigin(sys, org),
     entry   |-> << <<"", "LDU", "#stack">>, <<"", "LDS", "#$BF00">>,
                    <<"", "JMP", names["main"]>> >>,
     dasm    |-> dasm,
     casm    |-> casm,
     strings |-> [ i \in DOMAIN str |->
                     <<names[str[i][1]], Len(Chars(str[i][2])) - 2,
                       str[i][2]>> ],
     libs    |-> LibraryFiles(lib),
     fasm    |-> fasm]

AssemblyOutputStep ==
    /\ pc = "AssemblyOutput"
    /\ IF MainMissing(symtbl)
       THEN /\ Goto("done", "No main function defined.")
            /\ UNCHANGED <<table, calls, org, out>>
       ELSE /\ Goto("done", "")
            /\ org' = CodeOrigin(sys, org)
            /\ out' = OutputFile
    /\ UNCHANGED <<table, calls, source, srcPos, lex, tokens, cmdOrigin, sys, symtbl, names,
                   vars, consts, str, dataBlocks, codeBlocks, funcs,
                   referenced, stringCount, counter, lib, dependencies,
                   functionAddress, dasm, casm, fasm>>

Next ==
    \/ SetOriginStep
    \/ DeclarationsStep
    \/ ParseDataBlocksStep
    \/ ParseCodeBlocksStep
    \/ ParseFunctionsStep
    \/ TagFunctionsStep
    \/ LocateStringConstantsStep
    \/ LibraryRoutinesStep
    \/ CompileDataBlocksStep
    \/ CompileCodeBlocksStep
    \/ CompileFunctionsStep
    \/ AssemblyOutputStep

Spec == Init /\ [][Next]_vars_

---------------------------------------------------------------------------
(* Tokenize alone, character by character *)

InitLex ==
    /\ pc = "Tokenize"
    /\ source \in Sources
    /\ srcPos = 0
    /\ lex = LexStart
    /\ tokens = <<>>
    /\ cmdOrigin = -1
    /\ sys = FALSE
    /\ table = DEPENDENCIES
    /\ InitCommon

TokenizeStep ==
    /\ pc = "Tokenize"
    /\ srcPos < Len(source)
    /\ \E r \in {TokenizeChar(lex, tokens, source[srcPos + 1])} :
       /\ lex' = r.lex
       /\ tokens' = r.tokens
    /\ srcPos' = srcPos + 1
    /\ UNCHANGED <<table, calls, pc, err, source, cmdOrigin, sys, org, symtbl, names, vars,
                   consts, str, dataBlocks, codeBlocks, funcs, referenced,
                   stringCount, counter, lib, dependencies, functionAddress,
                   dasm, casm, fasm, out>>

\* the loop is over: Tokenize returns and Compile goes on to SetOrigin
TokenizeReturn ==
    /\ pc = "Tokenize"
    /\ srcPos = Len(source)
    /\ pc' = "Tokenized"
    /\ UNCHANGED <<table, calls, err, source, srcPos, lex, tokens, cmdOrigin, sys, org,
                   symtbl, names, vars, consts, str, dataBlocks, codeBlocks,
                   funcs, referenced, stringCount, counter, lib, dependencies,
                   functionAddress, dasm, casm, fasm, out>>

NextLex == TokenizeStep \/ TokenizeReturn

SpecLex == InitLex /\ [][NextLex]_vars_

---------------------------------------------------------------------------
(* Dependencies alone, call by call, on a table of three routines *)

\* Dependencies(names) is called with an empty self.dependencies, on a
\* table whose entries name keys of the table
InitDependencies ==
    /\ pc = "Dependencies"
    /\ table \in [{"x", "y", "z"} -> Seqs({"x", "y", "z"}, 2)]
    /\ \E ns \in Seqs({"x", "y", "z"}, 2) :
          /\ ns # <<>>
          /\ calls = << <<ns, 1>> >>
    /\ dependencies = <<>>
    /\ err = ""
    /\ source = <<>>
    /\ srcPos = 0
    /\ lex = LexStart
    /\ tokens = <<>>
    /\ cmdOrigin = -1
    /\ sys = FALSE
    /\ org = 0
    /\ symtbl = Keywords @@ Corewords
    /\ names = EmptyMap
    /\ vars = <<>>
    /\ consts = EmptyMap
    /\ str = <<>>
    /\ dataBlocks = <<>>
    /\ codeBlocks = <<>>
    /\ funcs = <<>>
    /\ referenced = EmptyMap
    /\ stringCount = 0
    /\ counter = 0
    /\ lib = <<>>
    /\ functionAddress = FALSE
    /\ dasm = <<>>
    /\ casm = <<>>
    /\ fasm = <<>>
    /\ out = NoFile

\* one turn of the for loop of the innermost call: the name d is skipped
\* when it is in self.dependencies, and appended, with a call on its
\* entry, when it is not; a call whose loop is over returns to its caller
\* (the same turn without the call on the entry of the name)
DependenciesStepFlat ==
    /\ pc = "Dependencies"
    /\ \E n \in {Len(calls)} : \E ns \in {calls[n][1]} : \E i \in {calls[n][2]} :
          /\ i <= Len(ns)
          /\ calls' = [calls EXCEPT ![n][2] = i + 1]
          /\ dependencies' = IF ns[i] \in Range(dependencies) THEN dependencies
                             ELSE Append(dependencies, ns[i])
    /\ UNCHANGED <<pc, err, source, srcPos, lex, tokens, cmdOrigin, sys, org,
                   symtbl, names, vars, consts, str, dataBlocks, codeBlocks,
                   funcs, referenced, stringCount, counter, lib,
                   functionAddress, dasm, casm, fasm, out, table>>

DependenciesStep ==
    /\ pc = "Dependencies"
    /\ \E n \in {Len(calls)} : \E ns \in {calls[n][1]} : \E i \in {calls[n][2]} :
          IF i > Len(ns)
          THEN /\ n > 1
               /\ calls' = SubSeq(calls, 1, n - 1)
               /\ UNCHANGED dependencies
          ELSE IF ns[i] \in Range(dependencies)
          THEN /\ calls' = [calls EXCEPT ![n][2] = i + 1]
               /\ UNCHANGED dependencies
          ELSE /\ dependencies' = Append(dependencies, ns[i])
               /\ calls' = Append([calls EXCEPT ![n][2] = i + 1],
                                   <<table[ns[i]], 1>>)
    /\ UNCHANGED <<pc, err, source, srcPos, lex, tokens, cmdOrigin, sys, org,
                   symtbl, names, vars, consts, str, dataBlocks, codeBlocks,
                   funcs, referenced, stringCount, counter, lib,
                   functionAddress, dasm, casm, fasm, out, table>>

\* the loop of the outermost call is over: Dependencies(names) returns
DependenciesReturn ==
    /\ pc = "Dependencies"
    /\ Len(calls) = 1
    /\ calls[1][2] > Len(calls[1][1])
    /\ pc' = "Returned"
    /\ UNCHANGED <<err, source, srcPos, lex, tokens, cmdOrigin, sys, org,
                   symtbl, names, vars, consts, str, dataBlocks, codeBlocks,
                   funcs, referenced, stringCount, counter, lib, dependencies,
                   functionAddress, dasm, casm, fasm, out, table, calls>>

SpecDependencies ==
    /\ InitDependencies
    /\ [][DependenciesStep \/ DependenciesReturn]_vars_
    /\ WF_vars_(DependenciesStep \/ DependenciesReturn)
---------------------------------------------------------------------------
(* Properties *)

\* the compilation went through every stage and wrote the output file
Compiles == pc = "done" /\ err = "" /\ out.opened

\* S and the functions named in the body of a function of S
Named(S) ==
    S \cup { t \in Keys(funcs) :
               \E i \in DOMAIN funcs :
                   funcs[i][1] \in S /\ t \in Range(funcs[i][2]) }

RECURSIVE Reach(_)
Reach(S) == IF Named(S) = S THEN S ELSE Reach(Named(S))

\* the functions main references directly or transitively
ReachableFromMain == Reach({"main"})

\* the label of function F stands in the emitted function section
Emitted(F) == \E j \in DOMAIN out.fasm : out.fasm[j] = <<names[F], "", "">>

\* C1: in a program that compiles, a function that is not reachable from
\* main has no label in the emitted function section, whatever unreachable
\* function (or the function itself) names it.
C1_UnreachableFunctionsAbsent ==
    Compiles =>
        \A F \in Keys(funcs) : F \notin ReachableFromMain => ~ Emitted(F)

\* S and the routines the dependency table lists for a routine of S
Required(S) ==
    S \cup UNION { Range(DEPENDENCIES[r]) : r \in S \cap DOMAIN DEPENDENCIES }

RECURSIVE Closure(_)
Closure(S) == IF Required(S) = S THEN S ELSE Closure(Required(S))

\* the labels of the library words used in function bodies, closed under
\* the dependency table
ClosedDependencySet ==
    Closure({ LIBRARYMAP[w] : w \in Range(BodyTokens(funcs)) \cap DOMAIN LIBRARYMAP })

\* C2: in a program that compiles, the library files copied into the
\* output are exactly the routines of the closed dependency set, each once.
C2_ClosedDependencySetEmitted ==
    Compiles =>
        \A r \in ClosedDependencySet :
            Cardinality({ j \in DOMAIN out.libs : out.libs[j] = r }) = 1

\* the core set
CoreWordSet ==
    CoreStackWords \cup CoreBitwiseWords \cup CoreArithmeticWords
    \cup CoreAccessWords \cup CoreCallWords

\* main is defined, every function with a body is reachable from main, and
\* every body token is a core word
OnlyCoreWords ==
    /\ "main" \in Keys(funcs)
    /\ \A i \in DOMAIN funcs :
          /\ funcs[i][2] # <<>> => funcs[i][1] \in ReachableFromMain
          /\ \A t \in Range(funcs[i][2]) : t \in CoreWordSet

\* C3: a program whose reachable bodies consist of core words compiles,
\* with no JSR in the function section and no library file in the output.
C3_CoreWordsInlined ==
    (pc \in {"done", "failed"} /\ OnlyCoreWords) =>
        /\ Compiles
        /\ out.libs = <<>>
        /\ \A j \in DOMAIN out.fasm : out.fasm[j][2] # "JSR"

\* the address of function F is pushed somewhere in the function section
AddressPushed(F) ==
    \E j \in DOMAIN out.fasm : out.fasm[j] = <<"", "LDD", "#" \o names[F]>>

\* some body names F right after &
NamedAfterAmpersand(F) ==
    \E i \in DOMAIN funcs : \E p \in DOMAIN funcs[i][2] :
        p >= 2 /\ funcs[i][2][p] = F /\ funcs[i][2][p - 1] = "&"

\* C4: the address of a function is pushed only for an occurrence of its
\* name that immediately follows & in the same body; an & followed by
\* another token has no effect on a later name.
C4_AddressOnlyRightAfterAmpersand ==
    Compiles =>
        \A F \in Keys(funcs) : AddressPushed(F) => NamedAfterAmpersand(F)

\* the lexer is inside a block comment
InBlockComment == lex.inComment /\ lex.delim # "\n"

\* the next character is the / of a */ whose * was read inside the comment
ClosingSlashNext ==
    /\ pc = "Tokenize"
    /\ InBlockComment
    /\ srcPos >= 2
    /\ srcPos < Len(source)
    /\ source[srcPos] = "*"
    /\ source[srcPos - 1] # "/"
    /\ source[srcPos + 1] = "/"

\* C5: inside a block comment, reading the / of the first */ returns the
\* lexer to normal mode, also when the character before that */ is a *.
C5_BlockCommentEndsAtFirstClose ==
    [][ClosingSlashNext => ~ lex'.inComment]_vars_

\* C6: when the source ends inside a string, an inline assembly block or
\* a block comment, the compilation stops with a diagnostic.
C6_UnterminatedFormIsFatal ==
    (pc = "Tokenized" /\ (lex.inString \/ lex.inCode \/ InBlockComment))
        => err # ""

\* the token stream ends inside a function: a def or : with no end or ;
\* after it
FunctionOpenAtEnd ==
    \E i \in DOMAIN tokens :
        /\ tokens[i] \in {"def", ":"}
        /\ \A j \in (i + 1)..Len(tokens) : tokens[j] \notin {"end", ";"}

\* C7: a program whose last function is not closed is not compiled.
C7_MissingCloseIsFatal == FunctionOpenAtEnd => pc # "done"

\* the source has an org statement outside every function
TopLevelOrg ==
    \E i \in DOMAIN tokens :
        /\ tokens[i] = "org"
        /\ \A j \in 1..(i - 1) : tokens[j] \notin {"def", ":"}

\* C8: without -sys, with -org N and a top-level org statement in the
\* source, the code origin written to the output is N.
C8_CommandOriginWins ==
    (Compiles /\ ~ sys /\ cmdOrigin # -1 /\ TopLevelOrg) => out.org = cmdOrigin

\* address a lies in the variable region of the output
InVariableRegion(a) == out.varOrg <= a /\ a < out.varEnd

\* C9: in a successful compilation the variable region contains neither an
\* address of the intrinsic region nor the code origin.
C9_RegionsDisjoint ==
    Compiles =>
        /\ \A e \in DOMAIN out.equates : ~ InVariableRegion(out.equates[e][2])
        /\ ~ InVariableRegion(out.org)

\* the address the assembler gives the i-th reservation: the ORG of the
\* region plus the sizes reserved before it
RECURSIVE Address(_)
Address(i) == IF i = 1 THEN out.varOrg ELSE Address(i - 1) + out.rmb[i - 1][2]

\* where the source declares variable v
DeclaredAt(v) ==
    CHOOSE p \in DOMAIN tokens :
        tokens[p] = "var" /\ p < Len(tokens) /\ tokens[p + 1] = v

\* i-th and j-th reservation are in declaration order
InDeclarationOrder(i, j) ==
    DeclaredAt(out.rmb[i][1]) < DeclaredAt(out.rmb[j][1])

DeclarationWords == {"var", "const", "str", "data", "code", "def", ":"}

\* token k opens a declaration that the source completes: a function or a
\* data block is closed further on
Declares(k) ==
    /\ tokens[k] \in DeclarationWords
    /\ k + 1 <= Len(tokens)
    /\ tokens[k] \in {"def", ":", "data"} =>
          \E j \in (k + 2)..Len(tokens) : tokens[j] \in {"end", ";"}

\* two declarations of the source introduce the same name
DuplicateDeclared ==
    \E k1, k2 \in DOMAIN tokens :
        /\ k1 < k2
        /\ Declares(k1) /\ Declares(k2)
        /\ tokens[k1 + 1] = tokens[k2 + 1]

\* the names held by the tables of declared objects, table by table
DeclaredTables ==
    <<Keys(vars), DOMAIN consts, Keys(str), Keys(dataBlocks),
      Keys(codeBlocks), Keys(funcs)>>

\* C11: a source that declares the same name twice, by the same or by two
\* different forms and in either order, ends with the duplicate-name
\* diagnostic; in a program that compiles no name stands in two tables.
C11_DuplicateDeclarationsFatal ==
    /\ (pc \in {"done", "failed"} /\ DuplicateDeclared) =>
          (pc = "failed" /\ err = "Duplicate name found")
    /\ Compiles =>
          \A i, j \in DOMAIN DeclaredTables :
              i # j => DeclaredTables[i] \cap DeclaredTables[j] = {}

\* a function declared first and a variable of the same name declared
\* after it: the compilation has stopped
C11_FunctionThenVariableRejected ==
    /\ pc = "failed"
    /\ \E k1, k2 \in DOMAIN tokens :
          /\ k1 < k2
          /\ tokens[k1] = ":" /\ tokens[k2] = "var"
          /\ Declares(k1) /\ Declares(k2)
          /\ tokens[k1 + 1] = tokens[k2 + 1]

\* the functions CompileFunctions compiles, in order
CompiledFunctions == { i \in DOMAIN funcs : referenced[funcs[i][1]] }

\* the body read with loop and compare stacks of its own, both empty at its
\* first token: the word that finds its stack empty ("" when none does) and
\* the number of words read before it
RECURSIVE Underflow(_, _, _, _)
Underflow(body, k, loops, compares) ==
    IF k > Len(body) THEN [word |-> "", read |-> Len(body)]
    ELSE IF body[k] = "{" THEN Underflow(body, k + 1, loops + 1, compares)
    ELSE IF body[k] \in {"if", "0if"}
    THEN Underflow(body, k + 1, loops, compares + 1)
    ELSE IF body[k] = "}"
    THEN IF loops = 0 THEN [word |-> "}", read |-> k - 1]
         ELSE Underflow(body, k + 1, loops - 1, compares)
    ELSE IF body[k] = "then"
    THEN IF compares = 0 THEN [word |-> "then", read |-> k - 1]
         ELSE Underflow(body, k + 1, loops, compares - 1)
    ELSE Underflow(body, k + 1, loops, compares)

\* every body is made of calls of defined functions and of the words that
\* open and close loops and tests
LoopsAndTestsOnly ==
    /\ "main" \in Keys(funcs)
    /\ \A i \in DOMAIN funcs : \A t \in Range(funcs[i][2]) :
          t \in {"{", "}", "if", "0if", "then"} \cup Keys(funcs)

\* the first compiled function with a word that finds its stack empty
FirstUnderflow ==
    IF \E i \in CompiledFunctions : Underflow(funcs[i][2], 1, 0, 0).word # ""
    THEN LET i == CHOOSE i \in CompiledFunctions :
                    /\ Underflow(funcs[i][2], 1, 0, 0).word # ""
                    /\ \A j \in CompiledFunctions :
                          Underflow(funcs[j][2], 1, 0, 0).word # "" => i <= j
         IN  [at |-> i] @@ Underflow(funcs[i][2], 1, 0, 0)
    ELSE [at |-> 0, word |-> "", read |-> 0]

\* the records of fasm that are a label and nothing else
LabelRecords == { j \in DOMAIN fasm : fasm[j][1] # "" /\ fasm[j][2] = "" }

\* C12: when CompileFunctions is over, a } or a then that finds no loop or
\* test open in its own function has stopped the compilation with the
\* underflow diagnostic, and the last record of fasm is the one of the word
\* before it (the label of the function when it is the first word); with no
\* such word there is no underflow diagnostic.
C12_UnderflowFatalPerFunction ==
    (pc \in {"AssemblyOutput", "done", "failed"} /\ LoopsAndTestsOnly
     /\ (pc = "failed" => funcs # <<>> /\ fasm # <<>>)) =>
        \E u \in {FirstUnderflow} :
            /\ u.word = "}" => pc = "failed" /\ err = "Loop underflow!"
            /\ u.word = "then" => pc = "failed" /\ err = "Compare underflow!"
            /\ u.word = "" => err \notin {"Loop underflow!", "Compare underflow!"}
            /\ (u.word # "" /\ u.read = 0) =>
                  fasm[Len(fasm)] = <<names[funcs[u.at][1]], "", "">>
            /\ (u.word # "" /\ u.read > 0
                /\ funcs[u.at][2][u.read] \in {"{", "if", "0if"}) =>
                  Len(fasm) \in LabelRecords

\* main closes a loop that only the function compiled before it opened,
\* and the compilation has stopped
C12_LoopOpenedInEarlierFunction ==
    /\ pc = "failed"
    /\ err = "Loop underflow!"
    /\ Len(funcs) = 2
    /\ funcs[1] = <<"f", <<"{">> >>
    /\ funcs[2][1] = "main"
    /\ funcs[2][2] = <<"f", "}">>

\* CompileFunctions is over and the program is main alone with this body
MainBodyCompiled(body) ==
    /\ pc \in {"AssemblyOutput", "done", "failed"}
    /\ funcs = << <<"main", body>> >>

\* the records of a pop and test of TOS that goes on at the label q when
\* the branch skip is taken and jumps to target when it is not
PopTestJump(k, skip, target) ==
    /\ fasm[k] = <<"", "PULU", "D">>
    /\ fasm[k + 1] = <<"", "TSTD", "">>
    /\ fasm[k + 2][1] = "" /\ fasm[k + 2][2] = skip
    /\ fasm[k + 3] = <<"", "JMP", target>>
    /\ fasm[k + 4] = <<fasm[k + 2][3], "", "">>

\* C13: in the loop { w } of main each of ?break, ?cont, ?0break, ?0cont
\* compiles: TOS is popped and tested, a zero (BEQ) skips the jump of
\* ?break and ?cont, a nonzero (BNE) skips the jump of ?0break and ?0cont,
\* and the jump goes to the label that ends the loop (break) or to the
\* label that begins it (cont).
C13_ConditionalExitsCompile ==
    \A w \in {"?break", "?cont", "?0break", "?0cont"} :
        MainBodyCompiled(<<"{", w, "}">>) =>
            /\ err = ""
            /\ Len(fasm) = 10
            /\ fasm[2][1] # "" /\ fasm[9][1] # ""
            /\ fasm[8] = <<"", "JMP", fasm[2][1]>>
            /\ PopTestJump(3, IF w \in {"?break", "?cont"} THEN "BEQ" ELSE "BNE",
                           IF w \in {"?break", "?0break"} THEN fasm[9][1]
                           ELSE fasm[2][1])

\* C14: in the loop { w } of main, break compiles to a jump to the label
\* that ends the loop and cont to a jump to the label that begins it; in
\* { { cont the jump goes to the label of the second, innermost, loop and
\* in { { break to neither loop's begin label.
C14_UnconditionalExitsCompile ==
    \A w \in {"break", "cont"} :
        /\ MainBodyCompiled(<<"{", w, "}">>) =>
              /\ err = ""
              /\ Len(fasm) = 6
              /\ fasm[2][1] # "" /\ fasm[5][1] # ""
              /\ fasm[3] = <<"", "JMP",
                             IF w = "break" THEN fasm[5][1] ELSE fasm[2][1]>>
        /\ MainBodyCompiled(<<"{", "{", w>>) =>
              /\ err = ""
              /\ Len(fasm) = 5
              /\ fasm[4][1] = "" /\ fasm[4][2] = "JMP"
              /\ IF w = "cont" THEN fasm[4][3] = fasm[3][1]
                 ELSE fasm[4][3] \notin {fasm[2][1], fasm[3][1]}

\* what the literals of the literal programs denote: the unary operator,
\* the magnitude, the bytes of the storage specifier (0 when there is none)
\* and the base
Meaning ==
    ("b'0xFF" :> [marker |-> "", mag |-> 255, size |-> 1, base |-> 16])
 @@ ("b'0x100" :> [marker |-> "", mag |-> 256, size |-> 1, base |-> 16])
 @@ ("b'255" :> [marker |-> "", mag |-> 255, size |-> 1, base |-> 10])
 @@ ("b'256" :> [marker |-> "", mag |-> 256, size |-> 1, base |-> 10])
 @@ ("b'0377" :> [marker |-> "", mag |-> 255, size |-> 1, base |-> 8])
 @@ ("b'0400" :> [marker |-> "", mag |-> 256, size |-> 1, base |-> 8])
 @@ ("b'0b11111111" :> [marker |-> "", mag |-> 255, size |-> 1, base |-> 2])
 @@ ("-b'128" :> [marker |-> "-", mag |-> 128, size |-> 1, base |-> 10])
 @@ ("-b'129" :> [marker |-> "-", mag |-> 129, size |-> 1, base |-> 10])
 @@ ("~b'128" :> [marker |-> "~", mag |-> 128, size |-> 1, base |-> 10])
 @@ ("~b'129" :> [marker |-> "~", mag |-> 129, size |-> 1, base |-> 10])
 @@ ("-b'1" :> [marker |-> "-", mag |-> 1, size |-> 1, base |-> 10])
 @@ ("~b'1" :> [marker |-> "~", mag |-> 1, size |-> 1, base |-> 10])
 @@ ("-b'0x80" :> [marker |-> "-", mag |-> 128, size |-> 1, base |-> 16])
 @@ ("~b'0x7F" :> [marker |-> "~", mag |-> 127, size |-> 1, base |-> 16])
 @@ ("+b'1" :> [marker |-> "+", mag |-> 1, size |-> 1, base |-> 10])
 @@ ("+b'256" :> [marker |-> "+", mag |-> 256, size |-> 1, base |-> 10])
 @@ ("w'0xFFFF" :> [marker |-> "", mag |-> 65535, size |-> 2, base |-> 16])
 @@ ("w'0x10000" :> [marker |-> "", mag |-> 65536, size |-> 2, base |-> 16])
 @@ ("-w'32768" :> [marker |-> "-", mag |-> 32768, size |-> 2, base |-> 10])
 @@ ("-w'32769" :> [marker |-> "-", mag |-> 32769, size |-> 2, base |-> 10])
 @@ ("~w'32769" :> [marker |-> "~", mag |-> 32769, size |-> 2, base |-> 10])
 @@ ("+w'0x10" :> [marker |-> "+", mag |-> 16, size |-> 2, base |-> 16])
 @@ ("d'1" :> [marker |-> "", mag |-> 1, size |-> 4, base |-> 10])
 @@ ("-d'1" :> [marker |-> "-", mag |-> 1, size |-> 4, base |-> 10])
 @@ ("d'0x10000" :> [marker |-> "", mag |-> 65536, size |-> 4, base |-> 16])
 @@ ("65535" :> [marker |-> "", mag |-> 65535, size |-> 0, base |-> 10])
 @@ ("65536" :> [marker |-> "", mag |-> 65536, size |-> 0, base |-> 10])
 @@ ("70000" :> [marker |-> "", mag |-> 70000, size |-> 0, base |-> 10])
 @@ ("0xFFFF" :> [marker |-> "", mag |-> 65535, size |-> 0, base |-> 16])
 @@ ("0x10000" :> [marker |-> "", mag |-> 65536, size |-> 0, base |-> 16])
 @@ ("0177777" :> [marker |-> "", mag |-> 65535, size |-> 0, base |-> 8])
 @@ ("0200000" :> [marker |-> "", mag |-> 65536, size |-> 0, base |-> 8])
 @@ ("0b1" :> [marker |-> "", mag |-> 1, size |-> 0, base |-> 2])
 @@ ("0b10000000000000000" :> [marker |-> "", mag |-> 65536, size |-> 0, base |-> 2])
 @@ ("-1" :> [marker |-> "-", mag |-> 1, size |-> 0, base |-> 10])
 @@ ("~1" :> [marker |-> "~", mag |-> 1, size |-> 0, base |-> 10])

\* the program is the literal t as the body of main, as the value of a
\* constant that main names, or as the value of a data block
LiteralInBody(t) == tokens = <<":", "main", t, ";">>

LiteralInConst(t) == tokens = <<"const", "k", t, ":", "main", "k", ";">>

LiteralInData(t) == tokens = <<"data", "d", t, "end", ":", "main", ";">>

\* the bounds table: the magnitude is below 2^(8n) when there is no
\* operator or a +, and at most 2^(8n-1) after - or ~ (written with
\* quotients that fit the 32-bit integers of TLC)
InBoundsTable(l) ==
    IF l.marker \in {"", "+"}
    THEN l.mag \div 256 < 2 ^ (8 * (l.size - 1))
    ELSE (l.mag - 1) \div 2 < 2 ^ (8 * l.size - 2)

\* the sign LiteralUnary documents for each operator
SignOf(marker) ==
    CASE marker = "-" -> -2 [] marker = "~" -> -1 [] marker = "+" -> 1
      [] OTHER -> 0

\* C15: the bound-ok flag of a literal with a storage specifier is the one
\* of the bounds table, and when the compilation of a program with an
\* out-of-bounds literal in the body of main, in a constant or in a data
\* block is over, it has failed.
C15_LiteralBoundsTable ==
    \A t \in DOMAIN Meaning :
        Meaning[t].size > 0 =>
            /\ LitIntBound(SignOf(Meaning[t].marker), Meaning[t].mag,
                           Meaning[t].size) = InBoundsTable(Meaning[t])
            /\ (/\ pc \in {"done", "failed"}
                /\ LiteralInBody(t) \/ LiteralInConst(t) \/ LiteralInData(t)
                /\ ~ InBoundsTable(Meaning[t])) => pc = "failed"

\* the 16-bit word that stands for the literal l: the magnitude, its two's
\* complement after -, its one's complement after ~
WordOf(l) ==
    CASE l.marker = "-" -> (65536 - l.mag) % 65536
      [] l.marker = "~" -> 65535 - l.mag
      [] OTHER -> l.mag

\* C16: when the compilation of main with a literal without storage
\* specifier as its body is over, a magnitude that fits in 16 bits has been
\* pushed as one word, and a larger one has stopped the compilation with
\* nothing pushed.
C16_UnqualifiedLiteralIsWord ==
    \A t \in DOMAIN Meaning :
        (/\ Meaning[t].size = 0
         /\ LiteralInBody(t)
         /\ pc \in {"done", "failed"}) =>
            IF Meaning[t].mag < 65536
            THEN /\ Compiles
                 /\ fasm = << <<"main", "", "">> >>
                           \o Push(CompileWord(WordOf(Meaning[t]), Meaning[t].base))
                           \o << <<"", "RTS", "">> >>
            ELSE /\ pc = "failed"
                 /\ \A j \in DOMAIN fasm : fasm[j][2] # "LDD"

\* the byte that stands for the literal l, zero-extended to a word
ByteOf(l) ==
    CASE l.marker = "-" -> (256 - l.mag) % 256
      [] l.marker = "~" -> 255 - (l.mag % 256)
      [] OTHER -> l.mag

\* C17: when main with an in-bounds byte literal as its body, with no
\* operator, with - or with ~, has compiled, the one word pushed has high
\* byte 0 and low byte the magnitude after the operator is applied.
C17_ByteLiteralZeroExtended ==
    \A t \in DOMAIN Meaning :
        (/\ Meaning[t].size = 1
         /\ Meaning[t].marker # "+"
         /\ InBoundsTable(Meaning[t])
         /\ LiteralInBody(t)
         /\ pc \in {"done", "failed"}) =>
            /\ Compiles
            /\ fasm = << <<"main", "", "">> >>
                      \o Push(CompileWord(ByteOf(Meaning[t]), Meaning[t].base))
                      \o << <<"", "RTS", "">> >>

\* the source opens a function named main
MainDeclared ==
    \E k \in DOMAIN tokens :
        tokens[k] \in {"def", ":"} /\ k < Len(tokens) /\ tokens[k + 1] = "main"

\* C18: when the compilation of a source that declares no function main,
\* or declares main with another kind, is over, it has failed with a
\* diagnostic; and as long as the compilation has not succeeded, whatever
\* the stage that stopped it, the output file has not been opened.
C18_MissingMainFatalBeforeOutput ==
    /\ (/\ pc \in {"done", "failed"}
        /\ \/ ~ MainDeclared
           \/ "main" \notin DOMAIN symtbl
           \/ symtbl["main"] # "FUNC") => (pc = "failed" /\ err # "")
    /\ pc # "done" => out = NoFile

\* main is a variable and f the only function: the emitter has stopped
\* the compilation before opening the output file
C18_MainIsVariable ==
    /\ pc = "failed"
    /\ err = "No main function defined."
    /\ "main" \in DOMAIN symtbl
    /\ symtbl["main"] = "VAR"
    /\ ~ out.opened

\* the labels of the library words in the bodies of the functions
\* reachable from main, closed under the dependency table
NeededByReachable ==
    Closure({ LIBRARYMAP[w] :
                w \in { t \in DOMAIN LIBRARYMAP :
                          \E i \in DOMAIN funcs :
                              /\ funcs[i][1] \in ReachableFromMain
                              /\ t \in Range(funcs[i][2]) } })

\* C19: in a program that compiles, every library file copied into the
\* output is needed by a library word in the body of a function reachable
\* from main; a word that stands only in unreachable bodies adds none.
C19_LibraryFollowsReachability ==
    Compiles =>
        \A j \in DOMAIN out.libs : out.libs[j] \in NeededByReachable

\* C20: when the compilation of main with the body & w, w a library word,
\* is over, it has succeeded, the address of the label LibraryMap gives for
\* w has been pushed and the & flag is cleared; with the body w alone the
\* code is a JSR to that label.
C20_LibraryWordAddress ==
    \A w \in DOMAIN LIBRARYMAP :
        /\ MainBodyCompiled(<<"&", w>>) =>
              /\ err = ""
              /\ fasm = << <<"main", "", "">> >> \o Push(LIBRARYMAP[w])
                        \o << <<"", "RTS", "">> >>
              /\ ~ functionAddress
        /\ MainBodyCompiled(<<w>>) =>
              /\ err = ""
              /\ fasm = << <<"main", "", "">>, <<"", "JSR", LIBRARYMAP[w]>>,
                           <<"", "RTS", "">> >>

\* the body is made of if, else and then only
TestsOnly(body) == \A k \in DOMAIN body : body[k] \in {"if", "else", "then"}

\* the body read with a stack of the open tests, each numbered in the order
\* of its if and marked once its else is met: the labels a properly nested
\* body defines, in order (<<n, "else">> or <<n, "end">> for the else-label
\* or end-label of test n), or <<"improper">> when an else or a then meets
\* no open test, an else meets a test that has one, or a test stays open
RECURSIVE LabelsDefined(_, _, _, _)
LabelsDefined(body, k, open, n) ==
    IF k > Len(body)
    THEN IF open = <<>> THEN <<>> ELSE <<"improper">>
    ELSE IF body[k] = "if"
    THEN LabelsDefined(body, k + 1, Append(open, <<n + 1, FALSE>>), n + 1)
    ELSE IF open = <<>> THEN <<"improper">>
    ELSE IF body[k] = "else"
    THEN IF open[Len(open)][2] THEN <<"improper">>
         ELSE << <<open[Len(open)][1], "else">> >>
              \o LabelsDefined(body, k + 1,
                     [open EXCEPT ![Len(open)][2] = TRUE], n)
    ELSE << <<open[Len(open)][1],
              IF open[Len(open)][2] THEN "end" ELSE "else">> >>
         \o LabelsDefined(body, k + 1, SubSeq(open, 1, Len(open) - 1), n)

ProperlyNested(body) ==
    \A i \in DOMAIN LabelsDefined(body, 1, <<>>, 0) :
        LabelsDefined(body, 1, <<>>, 0)[i] # "improper"

\* the else-label and the end-label CompileIf takes for the n-th test of
\* a body of tests, four labels a test
TestLabel(d) ==
    IF d[2] = "else" THEN GetLabel("else", 4 * (d[1] - 1))
    ELSE GetLabel("tend", 4 * (d[1] - 1) + 3)

\* every else-label and end-label the label counter has given out
TestLabels ==
    { GetLabel("else", n) : n \in 0..counter }
    \cup { GetLabel("tend", n) : n \in 0..counter }

IsTestLabelRecord(r) == r[1] \in TestLabels /\ r[2] = "" /\ r[3] = ""

\* C21: when a program of main alone, with a properly nested body of if, else and then,
\* has gone through CompileFunctions, the records that define an else-label
\* or an end-label are, in order, the else-label of the innermost open test
\* at each else, and at each then the end-label of the innermost open test
\* when it has an else and its else-label when it has none; so each
\* else-label is defined once, and each end-label once or never.
C21_TestLabelsBalanced ==
    \A body \in { funcs[i][2] : i \in DOMAIN funcs } :
        (/\ pc \in {"AssemblyOutput", "done", "failed"}
         /\ tokens = <<":", "main">> \o body \o <<";">>
         /\ TestsOnly(body)
         /\ ProperlyNested(body)) =>
            /\ err = ""
            /\ SelectSeq(fasm, IsTestLabelRecord)
               = [ i \in DOMAIN LabelsDefined(body, 1, <<>>, 0) |->
                     <<TestLabel(LabelsDefined(body, 1, <<>>, 0)[i]), "", "">> ]
            /\ \A i, j \in DOMAIN fasm :
                  (IsTestLabelRecord(fasm[i]) /\ fasm[i] = fasm[j]) => i = j

\* a test with an else nested in a test without one has compiled
C21_NestedTestsCompiled ==
    /\ pc = "done"
    /\ funcs = << <<"main", <<"if", "if", "else", "then", "then">> >> >>

\* the number of a decimal token of the arithmetic programs
NumberOf(t) == CASE t = "1" -> 1 [] t = "2" -> 2 [] t = "7" -> 7

\* one instruction of the 6309 on the registers D and W and the parameter
\* stack s (its top cell last; 0,U is the top cell and 2,U the cell under
\* it), with 16-bit cells; ok turns false at an instruction the function
\* section of the arithmetic programs does not hold
Execute(m, r) ==
    LET n == Len(m.s)
    IN  IF ~ m.ok \/ r[2] \in {"", "RTS"} THEN m
        ELSE IF r[2] = "LDD" /\ r[3] \in {"#1", "#2", "#7"}
        THEN [m EXCEPT !.d = CASE r[3] = "#1" -> 1 [] r[3] = "#2" -> 2
                                 [] r[3] = "#7" -> 7]
        ELSE IF r[2] = "PSHU" /\ r[3] = "D"
        THEN [m EXCEPT !.s = Append(@, m.d)]
        ELSE IF r[2] = "PULU" /\ r[3] = "D" /\ n >= 1
        THEN [m EXCEPT !.d = m.s[n], !.s = SubSeq(@, 1, n - 1)]
        ELSE IF r[2] = "PULUW" /\ n >= 1
        THEN [m EXCEPT !.w = m.s[n], !.s = SubSeq(@, 1, n - 1)]
        ELSE IF r[2] = "CLRD"
        THEN [m EXCEPT !.d = 0]
        ELSE IF r[2] = "SUBD" /\ r[3] = "0,U" /\ n >= 1
        THEN [m EXCEPT !.d = (m.d - m.s[n]) % 65536]
        ELSE IF r[2] = "DIVQ" /\ r[3] = "0,U" /\ n >= 1 /\ m.d = 0
                /\ m.s[n] # 0
        THEN [m EXCEPT !.w = m.w \div m.s[n], !.d = m.w % m.s[n]]
        ELSE IF r[2] = "STD" /\ r[3] = "0,U" /\ n >= 1
        THEN [m EXCEPT !.s[n] = m.d]
        ELSE IF r[2] = "STD" /\ r[3] = "2,U" /\ n >= 2
        THEN [m EXCEPT !.s[n - 1] = m.d]
        ELSE IF r[2] = "STW" /\ r[3] = "2,U" /\ n >= 2
        THEN [m EXCEPT !.s[n - 1] = m.w]
        ELSE [m EXCEPT !.ok = FALSE]

RECURSIVE Run(_, _, _)
Run(code, k, m) ==
    IF k > Len(code) THEN m ELSE Run(code, k + 1, Execute(m, code[k]))

\* what the word leaves for a pushed before b
Leaves(w, a, b) ==
    CASE w = "-"   -> (a - b) % 65536
      [] w = "/"   -> a \div b
      [] w = "mod" -> a % b

\* C22: when main pushes a, then b, and applies -, / or mod, running the
\* records of the function section on a stack that holds one older cell
\* leaves that cell and, on top of it, a-b, the quotient a/b or the
\* remainder a mod b.
C22_OperandOrder ==
    \A a, b \in {"1", "2", "7"}, w \in {"-", "/", "mod"} :
        (pc = "done" /\ tokens = <<":", "main", a, b, w, ";">>) =>
            \E m \in {Run(out.fasm, 1, [d |-> 0, w |-> 0, s |-> <<9>>, ok |-> TRUE])} :
                /\ m.ok
                /\ m.s = <<9, Leaves(w, NumberOf(a), NumberOf(b))>>

\* the attributes LocateStringConstants reads and writes
HoistingState ==
    [funcs |-> funcs, referenced |-> referenced, str |-> str,
     symtbl |-> symtbl, names |-> names, stringCount |-> stringCount,
     err |-> ""]

\* C23: right after LocateStringConstants has run without error, a second
\* run on the state it left changes no body token, no entry of the string
\* table, the symbol table or the names, not the string counter, and
\* raises no error.
C23_HoistingIdempotent ==
    pc = "LibraryRoutines" => LocateStringConstants(HoistingState) = HoistingState

\* string constants of f and of main have been hoisted
C23_TwoFunctionsHoisted ==
    /\ pc = "LibraryRoutines"
    /\ stringCount >= 2
    /\ \E i, j \in DOMAIN funcs :
          /\ funcs[i][1] = "f" /\ "STR_0000" \in Range(funcs[i][2])
          /\ funcs[j][1] = "main" /\ "STR_0001" \in Range(funcs[j][2])

\* the program is one declaration, with a legal size, value or text or
\* an empty body, followed by main
OneDeclaration ==
    /\ Len(tokens) \in 6..7
    /\ tokens[1] \in DeclarationWords
    /\ tokens[3] \in {"2", "\"hi\"", "/# nop #/", "end", ";"}
    /\ SubSeq(tokens, Len(tokens) - 2, Len(tokens)) = <<":", "main", ";">>

CapitalLetters == DOMAIN UpperToLower

\* the first character is one of first and the others are letters of
\* either case, digits or underscores
WellFormedName(n, first) ==
    /\ Chars(n) # <<>>
    /\ Chars(n)[1] \in first
    /\ \A i \in 2..Len(Chars(n)) :
          Chars(n)[i] \in Letters \cup CapitalLetters \cup Digits \cup {"_"}

IllegalNameDiagnostic ==
    CASE tokens[1] = "var"   -> "Illegal variable name"
      [] tokens[1] = "const" -> "Illegal constant name"
      [] tokens[1] = "str"   -> "Illegal string name"
      [] tokens[1] = "data"  -> "Illegal data block name"
      [] tokens[1] = "code"  -> "Illegal code block name"
      [] OTHER               -> "Illegal function name"

DeclaredKind ==
    CASE tokens[1] = "var"   -> "VAR"
      [] tokens[1] = "const" -> "CONST"
      [] tokens[1] = "str"   -> "STR"
      [] tokens[1] = "data"  -> "DATA"
      [] tokens[1] = "code"  -> "CODE"
      [] OTHER               -> "FUNC"

\* the compilation of one declaration and main ends with the name accepted
\* and stored as written when its first character is one of first, and
\* with the diagnostic of an illegal name when not
NamesChecked(first) ==
    (pc \in {"done", "failed"} /\ OneDeclaration) =>
        IF WellFormedName(tokens[2], first)
        THEN /\ pc = "done"
             /\ DOMAIN names = {tokens[2], "main"}
             /\ names[tokens[2]] = tokens[2]
             /\ symtbl[tokens[2]] = DeclaredKind
        ELSE /\ pc = "failed"
             /\ err = IllegalNameDiagnostic

\* C24: (as stated) a declared name is accepted exactly when its first
\* character is a letter or an underscore and the others are letters,
\* digits or underscores, whatever the case; any other is rejected with
\* the diagnostic of an illegal name, and an accepted name is stored as
\* written.
C24_UnderscoreMayLead ==
    NamesChecked(Letters \cup CapitalLetters \cup {"_"})

\* C24: (amended) a declared name is accepted exactly when its first
\* character is a letter and the others are letters, digits or
\* underscores, whatever the case; any other, a name with a leading
\* underscore included, is rejected with the diagnostic of an illegal
\* name, and an accepted name is stored as written.
C24_LetterMustLead ==
    NamesChecked(Letters \cup CapitalLetters)

\* the declaration of a variable whose name starts with an underscore has
\* been rejected
C24_LeadingUnderscoreRejected ==
    /\ pc = "failed"
    /\ OneDeclaration
    /\ tokens[1] = "var"
    /\ tokens[2] = "_a"
    /\ err = "Illegal variable name"

\* C25: in a program that compiles, every function main references
\* directly or transitively, main included, has its label exactly once in
\* the emitted function section, wherever it is declared.
C25_ReachableFunctionsEmittedOnce ==
    Compiles =>
        \A F \in ReachableFromMain :
            Cardinality({ j \in DOMAIN out.fasm :
                            out.fasm[j] = <<names[F], "", "">> }) = 1

\* main names f, declared before it, and f names g, declared after main
C25_ChainAcrossDeclarationOrder ==
    /\ Compiles
    /\ [ i \in DOMAIN funcs |-> funcs[i][1] ] = <<"f", "main", "g">>
    /\ \E i, j \in DOMAIN funcs :
          /\ funcs[i][1] = "main" /\ "f" \in Range(funcs[i][2])
          /\ "g" \notin Range(funcs[i][2])
          /\ funcs[j][1] = "f" /\ "g" \in Range(funcs[j][2])
    /\ Emitted("g")

\* C26: no stage of the compilation that ends without error changes the
\* kind a name already has in the symbol table: neither a declaration nor
\* the library scan overwrites an entry.
C26_SymbolKindsStable ==
    [][pc' # "failed" =>
         \A n \in DOMAIN symtbl : n \in DOMAIN symtbl' /\ symtbl'[n] = symtbl[n]]_vars_

\* the names from which the routines of S are reached by the table
RECURSIVE TableClosure(_)
TableClosure(S) ==
    IF S \cup UNION { Range(table[r]) : r \in S } = S THEN S
    ELSE TableClosure(S \cup UNION { Range(table[r]) : r \in S })

\* C27: on every table whose entries name keys of the table, with cycles
\* and entries that name their own key, Dependencies(names) returns, and
\* self.dependencies then holds each name reachable from names through the
\* table, and no other, exactly once.
C27_DependenciesTerminateClosed ==
    <>(/\ pc = "Returned"
       /\ Range(dependencies) = TableClosure(Range(calls[1][1]))
       /\ \A i, j \in DOMAIN dependencies :
             dependencies[i] = dependencies[j] => i = j)

\* Dependencies has returned on a table with a cycle from x through y, an
\* entry that names its own key and a third routine reached from the cycle
C27_CycleClosed ==
    /\ pc = "Returned"
    /\ calls[1][1] = <<"x">>
    /\ table["x"] = <<"y", "x">>
    /\ table["y"] = <<"x", "z">>
    /\ table["z"] = <<"z">>
    /\ Len(dependencies) = 3

\* the labels GetLabel can have returned for the record that opens a
\* loop or a test: the loop label of {, and the labels t and then of if
\* and 0if, each written in one record, when it is taken
OpeningLabels ==
    { GetLabel(name, n) : name \in {"loop", "t", "then"}, n \in 0..counter }

\* C28: the label counter never decreases, and the labels taken by any two
\* loops or tests of the program, in the same function or not, differ.
C28_GeneratedLabelsUnique ==
    /\ [](\A i, j \in DOMAIN fasm :
            (fasm[i][1] \in OpeningLabels /\ fasm[i][1] = fasm[j][1]) => i = j)
    /\ [][counter' >= counter]_vars_

\* f and main, two compiled functions, each open a loop
C28_LoopsInTwoFunctions ==
    /\ Compiles
    /\ \E i, j \in DOMAIN funcs :
          /\ funcs[i][1] = "f" /\ funcs[i][2] = <<"{">>
          /\ funcs[j][1] = "main" /\ funcs[j][2] = <<"f", "{", "}">>
    /\ counter = 4

\* C29: for every library word w, the label LIBRARYMAP gives for w and
\* every name reached from it through DEPENDENCIES is a key of
\* DEPENDENCIES, and the compilation of a program whose main applies w
\* does not end with a failed lookup in the tables.
C29_LibraryTablesTotal ==
    \A w \in DOMAIN LIBRARYMAP :
        (tokens = <<":", "main", w, ";">> /\ pc \in {"done", "failed"}) =>
            /\ Closure({LIBRARYMAP[w]}) \subseteq DOMAIN DEPENDENCIES
            /\ err # "KeyError"

\* every label GetLabel can have returned so far
GeneratedLabels ==
    { GetLabel(name, n) :
        name \in {"loop", "loop2", "else", "then", "t", "tend", "break",
                  "ifcont", "notifbreak", "notifcont"},
        n \in 0..counter }

\* C30: in a program that compiles, every generated label that is the
\* operand of a JMP, BEQ or BNE of the function section is the label of
\* exactly one record of the section; a body that leaves a loop or a test
\* open, or has two else for one if, does not compile with a branch to a
\* label defined nowhere or twice.
C30_BranchTargetsDefinedOnce ==
    Compiles =>
        \A j \in DOMAIN out.fasm :
            (out.fasm[j][2] \in {"JMP", "BEQ", "BNE"}
             /\ out.fasm[j][3] \in GeneratedLabels) =>
                Cardinality({ i \in DOMAIN out.fasm :
                                out.fasm[i][1] = out.fasm[j][3] }) = 1

=============================================================================
